---- MODULE Spec2Model ----
(***************************************************************************)
(* A model of the search core of bene-snake:                               *)
(*   - NonPushableQueue (lib/src/non_pushable_queue.rs): the lock-free     *)
(*     pop-only queue, one step per atomic operation of pop_front, and its *)
(*     destructor;                                                         *)
(*   - Node and mcts_search (lib/src/mcts.rs): the shared tree and the     *)
(*     worker loop, one step per atomic operation on shared state;         *)
(*   - MctsAgent::choose_move (lib/src/agent.rs): one worker, then the     *)
(*     final read of the root with best_child;                             *)
(*   - MoveCombinationIterator (lib/src/mcts.rs), one step per next;       *)
(*   - the handlers start, get_move and end (src/main.rs) on the registry; *)
(*   - the children mutexes under calls of the Node methods (mcts.rs);     *)
(*   - TournamentStats::from_results (gym/src/stats.rs), one step per      *)
(*     result.                                                             *)
(* Specifications: SpecQueue (the queue under concurrent consumers), Spec  *)
(* (mcts_search with several workers on a small game), FairSpec (Spec with *)
(* every worker scheduled fairly), SpecLong (one worker on a board with a  *)
(* single move left, long enough for the 16-bit counters to wrap),         *)
(* SpecAgent (choose_move) and FairSpecAgent (its worker scheduled         *)
(* fairly), SpecStuck (one worker, also on boards where a live snake has   *)
(* no reasonable move), SpecTurn (choose_move on boards where a snake runs *)
(* into a dead end), SpecEnum (the enumerator on bounded move lists),      *)
(* SpecServer (a bounded sequence of requests), SpecLocks (the Node        *)
(* methods called by several threads), SpecStats (from_results).           *)
(***************************************************************************)
EXTENDS Integers, Sequences, FiniteSets, TLC

(***************************************************************************)
(* Bounds of the model.                                                    *)
(***************************************************************************)
\* longest input iterator a queue is built from
MaxLen == 3
\* number of consumer threads of the queue
NumThreads == 2
\* number of worker threads that may run mcts_search on one root
NumWorkers == 2
\* search iterations all workers together may begin (Spec)
MaxIter == 3
\* turns after which the small game is over at the latest
MaxDepth == 2
\* search iterations the single worker of SpecLong may begin
LongIter == 65540
\* search iterations the worker of the agent may begin (SpecAgent)
AgentIter == 5
\* most snakes, and longest move list of a snake, an enumerator is given
MaxSnakes == 3
MaxMoves == 2
\* calls of next that return None before the enumerator is left alone
MaxNone == 2
\* games the server is asked about, and requests it handles in a run
NumGames == 2
MaxRequests == 4
\* agent names, and game results, from_results is given
NumAgents == 2
MaxResults == 3

Threads == 1..NumThreads
Workers == 1..NumWorkers

(***************************************************************************)
(* NonPushableQueue: state.                                                *)
(* A pointer is an address; cell c lives at the even address 2*c, null is  *)
(* 0, and the lowest bit of a next pointer is the consumed tag.            *)
(***************************************************************************)
VARIABLES
    qlen,           \* number of items the input iterator yielded
    head,           \* NonPushableQueue.head (AtomicPtr)
    original_head,  \* NonPushableQueue.original_head
    next,           \* next[c]: Node.next of cell c (AtomicPtr, tagged)
    qalive,         \* FALSE once the queue was dropped
    qpc,            \* qpc[t]: where thread t is inside pop_front
    current,        \* current[t]: local `current` of pop_front
    next_raw,       \* next_raw[t]: local `next_raw` of pop_front
    \* ---- history (observations, never read by the operations) ----
    ret,            \* ret[t]: payloads thread t's pops returned, in order
    taken,          \* taken[c]: how often cell c's payload was moved out
    claimSeq,       \* the cells claimed by successful claiming CASes, in order
    dropped,        \* dropped[c]: how often Drop dropped cell c's payload
    noneSeen,       \* some pop_front has returned None
    beginNone,      \* beginNone[t]: t is in a pop that began after a None
    doneMax,        \* highest input position a completed pop returned
    beginMax,       \* beginMax[t]: doneMax when the pop t is in began
    earlyNone,      \* a pop read a null head while a cell was unclaimed
    lastRet,        \* lastRet[t]: "some"/"none": t's latest completed pop
    tries           \* tries[t]: passes of the retry loop begun in the pop t is in

qvars == <<qlen, head, original_head, next, qalive, qpc, current, next_raw,
           ret, taken, claimSeq, dropped, noneSeen, beginNone,
           doneMax, beginMax, earlyNone, lastRet, tries>>

(***************************************************************************)
(* The search tree and the workers of mcts_search: state.                  *)
(* A node is named by its path, the actions from the root down to it.      *)
(***************************************************************************)
VARIABLES
    stop,           \* the stop flag (AtomicBool)
    nodes,          \* nodes[path]: the Node at that path
    wpc,            \* wpc[w]: where worker w is inside mcts_search
    wnode,          \* wnode[w]: local `node` of mcts_search / `self` of backpropagate
    wmoves,         \* wmoves[w]: local `moves` of expand (the claimed combination)
    wresult,        \* wresult[w]: local `result` of mcts_search
    iterations,     \* iterations begun by all workers
    maxIter,        \* iterations the workers may begin in this run
    \* ---- history (observations, never read by the operations) ----
    inserts,        \* inserts[path]: inserts into the child map of that node
    stopAtCall,     \* stopAtCall[w]: stop was set when w called mcts_search
    ran,            \* ran[w]: w has begun an iteration
    expandRes,      \* expandRes[w]: what w's expand did in this iteration
    passes,         \* passes[path]: backpropagation passes completed at that node
    outcomes,       \* outcomes[path]: sum of the results of those passes
    rollouts,       \* rollouts[path]: rollouts completed that started at that node
    rollwins,       \* rollwins[path]: sum of the results of those rollouts
    installed       \* installed[w]: the child the current iteration of w installed
                    \* (kept for a lone worker, whose child no one else passes)

(***************************************************************************)
(* MctsAgent::choose_move, the handler around the search: state.           *)
(***************************************************************************)
VARIABLES
    spawned,        \* the workers the handler spawns on the root
    chosen          \* the Move choose_move returned, NotChosen before

avars == <<spawned, chosen>>

(***************************************************************************)
(* The children mutexes (next_nodes: Mutex<BTreeMap<..>>) under calls of   *)
(* the Node methods by several threads: state.                             *)
(***************************************************************************)
VARIABLES
    lnodes,         \* the nodes of the shared tree, by path
    lholder,        \* lholder[n]: the thread that holds the mutex of node n
    lpc,            \* lpc[t]: where thread t is inside the method it called
    lat,            \* lat[t]: `self` of that call (of its innermost get_depth)
    lstack          \* lstack[t]: the get_depth calls of t that hold their lock

lvars == <<lnodes, lholder, lpc, lat, lstack>>

hvars == <<passes, outcomes, rollouts, rollwins, installed>>

mvars == <<stop, nodes, wpc, wnode, wmoves, wresult, iterations, maxIter,
           inserts, stopAtCall, ran, expandRes, hvars, avars, lvars>>

(***************************************************************************)
(* A MoveCombinationIterator driven by itself: state.                      *)
(***************************************************************************)
VARIABLES
    esnakes,        \* the snake_moves the iterator was built from
    eit,            \* the iterator: snake_moves, indices, exhausted
    eyield,         \* the combinations next has yielded, in order
    enone           \* how often next has returned None

evars == <<esnakes, eit, eyield, enone>>

(***************************************************************************)
(* The HTTP handlers and the registry of running games: state.             *)
(***************************************************************************)
VARIABLES
    registry,       \* GameStates: the game ids that have a SnakeIDMap
    poisoned,       \* the registry's Mutex is poisoned
    responses,      \* the answers of the requests handled, in order
    \* ---- history (observations, never read by the handlers) ----
    requests        \* the game id and well-formedness of those requests

svars == <<registry, poisoned, responses, requests>>

(***************************************************************************)
(* TournamentStats::from_results (the gym): state.                         *)
(***************************************************************************)
VARIABLES
    seen,           \* how many of the results the loop has been through
    result,         \* the loop variable: the result of the latest pass
    agent_stats,    \* local agent_stats: one AgentStats per agent name
    total_draws,    \* local total_draws
    min_length,     \* local min_length
    max_length,     \* local max_length
    total_turns,    \* local total_turns
    tournament      \* the TournamentStats returned, NoStats before

gvars == <<seen, result, agent_stats, total_draws, min_length, max_length,
           total_turns, tournament>>

vars == <<qvars, mvars, evars, svars, gvars>>

Null == 0
CONSUMED_BIT == 1

Cells == 1..qlen
AddrOf(c) == 2 * c
CellAt(ptr) == ptr \div 2
\* the item the input iterator yielded at position c
Payload(c) == c

mark_consumed(ptr) == IF ptr % 2 = 0 THEN ptr + CONSUMED_BIT ELSE ptr
is_consumed(ptr) == ptr % 2 # 0
clear_consumed_bit(ptr) == ptr - (ptr % 2)

\* a builder that links every new cell in front of the list
NewFromIteratorPrepend(n) ==
    /\ qlen = n
    /\ head = IF n = 0 THEN Null ELSE AddrOf(n)
    /\ original_head = IF n = 0 THEN Null ELSE AddrOf(n)
    /\ next = [c \in 1..n |-> IF c > 1 THEN AddrOf(c - 1) ELSE Null]
    /\ qalive = TRUE

\* new_from_iterator: the cells are linked in input order, the last next is
\* null, head and original_head are the first cell (null for no items).
NewFromIterator(n) ==
    /\ qlen = n
    /\ head = IF n = 0 THEN Null ELSE AddrOf(1)
    /\ original_head = IF n = 0 THEN Null ELSE AddrOf(1)
    /\ next = [c \in 1..n |-> IF c < n THEN AddrOf(c + 1) ELSE Null]
    /\ qalive = TRUE

QueueStart ==
    /\ \E n \in 0..MaxLen : NewFromIterator(n)
    /\ qpc = [t \in Threads |-> "idle"]
    /\ current = [t \in Threads |-> Null]
    /\ next_raw = [t \in Threads |-> Null]
    /\ ret = [t \in Threads |-> <<>>]
    /\ taken = [c \in 1..qlen |-> 0]
    /\ claimSeq = <<>>
    /\ dropped = [c \in 1..qlen |-> 0]
    /\ noneSeen = FALSE
    /\ beginNone = [t \in Threads |-> FALSE]
    /\ doneMax = 0
    /\ beginMax = [t \in Threads |-> 0]
    /\ earlyNone = FALSE
    /\ lastRet = [t \in Threads |-> "-"]
    /\ tries = [t \in Threads |-> 0]

(***************************************************************************)
(* pop_front, one action per atomic operation.                             *)
(***************************************************************************)
\* a thread calls pop_front (the queue is alive: it holds a reference)
PopCall(t) ==
    /\ qalive
    /\ qpc[t] = "idle"
    /\ qpc' = [qpc EXCEPT ![t] = "load_head"]
    /\ beginNone' = [beginNone EXCEPT ![t] = noneSeen]
    /\ beginMax' = [beginMax EXCEPT ![t] = doneMax]
    /\ tries' = [tries EXCEPT ![t] = 0]
    /\ UNCHANGED <<qlen, head, original_head, next, qalive, current, next_raw,
                   ret, taken, claimSeq, dropped, noneSeen, doneMax, earlyNone, lastRet,
                   mvars, evars, svars, gvars>>

\* let current = self.head.load(Acquire); if current.is_null() { return None }
LoadHead(t) ==
    /\ qpc[t] = "load_head"
    /\ IF head = Null
         THEN /\ qpc' = [qpc EXCEPT ![t] = "idle"]
              /\ current' = [current EXCEPT ![t] = Null]
              /\ noneSeen' = TRUE
              /\ earlyNone' = (earlyNone \/ \E c \in Cells : \A i \in DOMAIN claimSeq : claimSeq[i] # c)
              /\ lastRet' = [lastRet EXCEPT ![t] = "none"]
              /\ beginNone' = [beginNone EXCEPT ![t] = FALSE]
              /\ beginMax' = [beginMax EXCEPT ![t] = 0]
         ELSE /\ qpc' = [qpc EXCEPT ![t] = "load_next"]
              /\ current' = [current EXCEPT ![t] = head]
              /\ UNCHANGED <<noneSeen, earlyNone, lastRet, beginNone, beginMax>>
    /\ tries' = [tries EXCEPT ![t] = IF head = Null THEN 0 ELSE @ + 1]
    /\ UNCHANGED <<qlen, head, original_head, next, qalive, next_raw, ret,
                   taken, claimSeq, dropped, doneMax,
                   mvars, evars, svars, gvars>>

\* let next_raw = (*current).next.load(Acquire); if is_consumed(next_raw) ...
LoadNext(t) ==
    /\ qpc[t] = "load_next"
    /\ next_raw' = [next_raw EXCEPT ![t] = next[CellAt(current[t])]]
    /\ qpc' = [qpc EXCEPT ![t] =
                 IF is_consumed(next[CellAt(current[t])])
                   THEN "help_cas" ELSE "claim_cas"]
    /\ UNCHANGED <<qlen, head, original_head, next, qalive, current, ret,
                   taken, claimSeq, dropped, noneSeen, beginNone,
                   doneMax, beginMax, earlyNone, lastRet,
                   tries, mvars, evars, svars, gvars>>

\* a compare_exchange that does not compare: it always succeeds
CasBlind(expected) == TRUE

\* a compare_exchange that fails although head = expected, every time
CasFailsSpuriously(expected) == FALSE

\* self.head.compare_exchange(expected, new, ..) succeeds iff head = expected
CasSucceeds(expected) == head = expected

\* the value head holds after the compare_exchange
CompareExchange(expected, new) == IF CasSucceeds(expected) THEN new ELSE head

\* the helping CAS: head from current to clear_consumed_bit(next_raw); continue
HelpCas(t) ==
    /\ qpc[t] = "help_cas"
    /\ head' = CompareExchange(current[t], clear_consumed_bit(next_raw[t]))
    /\ qpc' = [qpc EXCEPT ![t] = "load_head"]
    /\ current' = [current EXCEPT ![t] = Null]
    /\ next_raw' = [next_raw EXCEPT ![t] = Null]
    /\ UNCHANGED <<qlen, original_head, next, qalive, ret, taken, claimSeq,
                   dropped, noneSeen, beginNone, doneMax, beginMax, earlyNone,
                   lastRet,
                   tries, mvars, evars, svars, gvars>>

\* the claiming CAS: head from current to next; on failure retry
ClaimCas(t) ==
    /\ qpc[t] = "claim_cas"
    /\ head' = CompareExchange(current[t], next_raw[t])
    /\ IF CasSucceeds(current[t])
         THEN /\ qpc' = [qpc EXCEPT ![t] = "store_tag"]
              /\ claimSeq' = Append(claimSeq, CellAt(current[t]))
              /\ UNCHANGED <<current, next_raw>>
         ELSE /\ qpc' = [qpc EXCEPT ![t] = "load_head"]
              /\ current' = [current EXCEPT ![t] = Null]
              /\ next_raw' = [next_raw EXCEPT ![t] = Null]
              /\ UNCHANGED claimSeq
    /\ UNCHANGED <<qlen, original_head, next, qalive, ret, taken, dropped,
                   noneSeen, beginNone, doneMax, beginMax, earlyNone, lastRet,
                   tries, mvars, evars, svars, gvars>>

\* (*current).next.store(mark_consumed(next), Release)
StoreTag(t) ==
    /\ qpc[t] = "store_tag"
    /\ next' = [next EXCEPT ![CellAt(current[t])] = mark_consumed(next_raw[t])]
    /\ qpc' = [qpc EXCEPT ![t] = "read_data"]
    /\ next_raw' = [next_raw EXCEPT ![t] = Null]
    /\ UNCHANGED <<qlen, head, original_head, qalive, current, ret, taken,
                   claimSeq, dropped, noneSeen, beginNone, doneMax, beginMax,
                   earlyNone, lastRet,
                   tries, mvars, evars, svars, gvars>>

\* let data = (*current).data.assume_init_read(); return Some(data)
ReadData(t) ==
    /\ qpc[t] = "read_data"
    /\ LET c == CellAt(current[t]) IN
         /\ ret' = [ret EXCEPT ![t] = Append(@, Payload(c))]
         /\ taken' = [taken EXCEPT ![c] = @ + 1]
         /\ doneMax' = IF c > doneMax THEN c ELSE doneMax
    /\ qpc' = [qpc EXCEPT ![t] = "idle"]
    /\ current' = [current EXCEPT ![t] = Null]
    /\ lastRet' = [lastRet EXCEPT ![t] = "some"]
    /\ beginNone' = [beginNone EXCEPT ![t] = FALSE]
    /\ beginMax' = [beginMax EXCEPT ![t] = 0]
    /\ tries' = [tries EXCEPT ![t] = 0]
    /\ UNCHANGED <<qlen, head, original_head, next, qalive, next_raw,
                   claimSeq, dropped, noneSeen, earlyNone,
                   mvars, evars, svars, gvars>>

pop_front(t) ==
    \/ PopCall(t)
    \/ LoadHead(t)
    \/ LoadNext(t)
    \/ HelpCas(t)
    \/ ClaimCas(t)
    \/ StoreTag(t)
    \/ ReadData(t)

(***************************************************************************)
(* Drop for NonPushableQueue: with exclusive access, walk the cells from   *)
(* original_head; a cell whose next is not tagged still holds its payload, *)
(* which is dropped; the walk follows the untagged next pointer.           *)
(***************************************************************************)
\* a destructor that drops the payload of every cell, consumed or not
RECURSIVE DropWalkAll(_, _)
DropWalkAll(cur, acc) ==
    IF cur = Null THEN acc
    ELSE LET c == CellAt(cur)
         IN DropWalkAll(clear_consumed_bit(next[c]), [acc EXCEPT ![c] = @ + 1])

RECURSIVE DropWalk(_, _)
DropWalk(cur, acc) ==
    IF cur = Null THEN acc
    ELSE LET c == CellAt(cur)
             nr == next[c]
         IN DropWalk(clear_consumed_bit(nr),
                     IF ~is_consumed(nr) THEN [acc EXCEPT ![c] = @ + 1] ELSE acc)

DropQueue ==
    /\ qalive
    /\ \A t \in Threads : qpc[t] = "idle"
    /\ dropped' = DropWalk(original_head, dropped)
    /\ qalive' = FALSE
    /\ UNCHANGED <<qlen, head, original_head, next, qpc, current, next_raw,
                   ret, taken, claimSeq, noneSeen, beginNone, doneMax,
                   beginMax, earlyNone, lastRet,
                   tries, mvars, evars, svars, gvars>>

QNext ==
    \/ \E t \in Threads : pop_front(t)
    \/ DropQueue

(***************************************************************************)
(* The simulator (battlesnake_game_types, an external collaborator): a     *)
(* small deterministic game that meets the contract mcts.rs relies on.     *)
(* A board holds the turns left until the game is over, the reasonable     *)
(* move list of every live snake and, once over, the winner.               *)
(***************************************************************************)
SnakeIds == 0..3
\* the snake the search plays for (the `you` argument)
You == 0
NoSnake == -1
NoMove == "None"
Moves == <<"Up", "Down", "Left", "Right">>

\* reasonable-move lists used by the boards of the small game
OneMove == << <<0, <<"Up">>>> >>
TwoSnakes == << <<0, <<"Up", "Down">>>>, <<1, <<"Left">>>> >>
StuckSnake == << <<0, <<"Up">>>>, <<1, <<>>>> >>
OtherOnly == << <<1, <<"Left">>>> >>
\* snake 1 can only move into a dead end; DownStuck is the board after it
DeadEnd == << <<0, <<"Down">>>>, <<1, <<"Right">>>> >>
DownStuck == << <<0, <<"Down">>>>, <<1, <<>>>> >>

Board(left, snake_moves, winner) ==
    [left |-> left, snake_moves |-> snake_moves, winner |-> winner]

\* board.is_over()
is_over(board) == board.left = 0
\* board.get_winner()
get_winner(board) == board.winner
\* board.reasonable_moves_for_each_snake()
reasonable_moves_for_each_snake(board) == board.snake_moves

\* the move of snake sid in a combination, NoMove when it has none
MoveOf(moves, sid) ==
    IF \E i \in DOMAIN moves : moves[i][1] = sid
      THEN LET i == CHOOSE j \in DOMAIN moves : moves[j][1] = sid IN moves[i][2]
      ELSE NoMove

\* Action<4>: the array of the four snakes' optional moves
ActionOf(moves) == [k \in 1..4 |-> MoveOf(moves, k - 1)]

\* a live snake of the board has no reasonable move
HasStuckSnake(board) ==
    \E i \in DOMAIN board.snake_moves : board.snake_moves[i][2] = <<>>

\* the turns left after a step: a board on which a snake is stuck is over
\* after the next step
LeftAfter(board) == IF HasStuckSnake(board) THEN 0 ELSE board.left - 1

\* the move lists after a step: a snake that went Right is in a dead end
MovesAfter(board, moves) ==
    [i \in DOMAIN board.snake_moves |->
        <<board.snake_moves[i][1],
          IF MoveOf(moves, board.snake_moves[i][1]) = "Right"
            THEN <<>> ELSE board.snake_moves[i][2]>>]

\* board.simulate_with_moves(..).next().unwrap(): one (action, next board)
simulate_with_moves(board, moves) ==
    [action |-> ActionOf(moves),
     board |-> Board(LeftAfter(board), MovesAfter(board, moves),
                     IF LeftAfter(board) = 0 /\ MoveOf(moves, You) = "Up"
                       THEN You ELSE NoSnake)]

(***************************************************************************)
(* MoveCombinationIterator and generate_move_combinations.                 *)
(***************************************************************************)
\* a constructor that also counts "no snakes" as exhausted
MoveCombinationIterator_newNoSnakesExhausted(snake_moves) ==
    [snake_moves |-> snake_moves,
     indices |-> [i \in 1..Len(snake_moves) |-> 0],
     exhausted |-> \/ snake_moves = <<>>
                   \/ \E i \in 1..Len(snake_moves) : snake_moves[i][2] = <<>>]

\* MoveCombinationIterator::new
MoveCombinationIterator_new(snake_moves) ==
    [snake_moves |-> snake_moves,
     indices |-> [i \in 1..Len(snake_moves) |-> 0],
     exhausted |-> \E i \in 1..Len(snake_moves) : snake_moves[i][2] = <<>>]

\* a carry loop that stops after the last position
IncrementIndicesNoCarry(snake_moves, indices, i, carry) ==
    IF i = 0 THEN [indices |-> indices, carry |-> carry]
    ELSE IF indices[i] + 1 >= Len(snake_moves[i][2])
      THEN [indices |-> [indices EXCEPT ![i] = 0], carry |-> TRUE]
      ELSE [indices |-> [indices EXCEPT ![i] = @ + 1], carry |-> FALSE]

\* a carry loop that runs from the first position up
RECURSIVE IncrementIndicesForward(_, _, _, _)
IncrementIndicesForward(snake_moves, indices, i, carry) ==
    LET p == Len(indices) - i + 1
    IN IF i = 0 THEN [indices |-> indices, carry |-> carry]
       ELSE IF ~carry
         THEN IncrementIndicesForward(snake_moves, indices, i - 1, FALSE)
       ELSE IF indices[p] + 1 >= Len(snake_moves[p][2])
         THEN IncrementIndicesForward(snake_moves, [indices EXCEPT ![p] = 0],
                                      i - 1, TRUE)
         ELSE IncrementIndicesForward(snake_moves, [indices EXCEPT ![p] = @ + 1],
                                      i - 1, FALSE)

\* the carry loop of next: for i in (0..len).rev(), from position i down
RECURSIVE IncrementIndices(_, _, _, _)
IncrementIndices(snake_moves, indices, i, carry) ==
    IF i = 0 THEN [indices |-> indices, carry |-> carry]
    ELSE IF ~carry THEN IncrementIndices(snake_moves, indices, i - 1, FALSE)
    ELSE IF indices[i] + 1 >= Len(snake_moves[i][2])
      THEN IncrementIndices(snake_moves, [indices EXCEPT ![i] = 0], i - 1, TRUE)
      ELSE IncrementIndices(snake_moves, [indices EXCEPT ![i] = @ + 1], i - 1, FALSE)

\* MoveCombinationIterator::next: [some, item, it]
MoveCombinationIterator_next(it) ==
    IF it.exhausted THEN [some |-> FALSE, item |-> <<>>, it |-> it]
    ELSE IF it.snake_moves = <<>>
      THEN [some |-> TRUE, item |-> <<>>, it |-> [it EXCEPT !.exhausted = TRUE]]
    ELSE LET combination ==
                 [i \in 1..Len(it.snake_moves) |->
                     <<it.snake_moves[i][1],
                       it.snake_moves[i][2][it.indices[i] + 1]>>]
             inc == IncrementIndices(it.snake_moves, it.indices,
                                     Len(it.indices), TRUE)
         IN [some |-> TRUE, item |-> combination,
             it |-> [it EXCEPT !.indices = inc.indices,
                               !.exhausted = inc.carry]]

\* everything the iterator yields, in order (new_from_iterator drains it)
RECURSIVE Collect(_)
Collect(it) ==
    LET r == MoveCombinationIterator_next(it)
    IN IF r.some THEN <<r.item>> \o Collect(r.it) ELSE <<>>

generate_move_combinations(snake_moves) ==
    Collect(MoveCombinationIterator_new(snake_moves))

(***************************************************************************)
(* Node.                                                                   *)
(***************************************************************************)
RootPath == <<>>
\* no node: a path no node has
NoPath == << <<"-", "-", "-", "-">> >>
ParentOf(path) == SubSeq(path, 1, Len(path) - 1)
ChildOf(path, action) == Append(path, action)

\* the 16-bit counters: AtomicU16::fetch_add wraps around
U16Mod == 65536

\* Node::new_child: counters 0, no children, and the queue possible_moves of
\* all combinations, of which the node keeps how many were popped (the items
\* of the queue never change: they are PossibleMoves of the board)
new_child(board) ==
    [board |-> board, next_nodes |-> {}, popped |-> 0, wins |-> 0, visits |-> 0]

\* the reasonable-move lists of the boards of the small game, and the
\* combinations generate_move_combinations yields for each (computed once)
MoveLists == {OneMove, TwoSnakes, StuckSnake, OtherOnly, DeadEnd, DownStuck, <<>>}
CombinationsOf == [sm \in MoveLists |-> generate_move_combinations(sm)]

\* board.random_reasonable_move_for_each_snake(rng): the samples it can give,
\* one move for every snake that has one
HasMove(entry) == entry[2] # <<>>
SamplesOf ==
    [sm \in MoveLists |-> generate_move_combinations(SelectSeq(sm, HasMove))]
random_reasonable_move_for_each_snake(board) ==
    SamplesOf[reasonable_moves_for_each_snake(board)]

\* the items new_child puts into possible_moves, in queue order
PossibleMoves(board) == CombinationsOf[reasonable_moves_for_each_snake(board)]

\* Node::new_root
new_root(board) == new_child(board)

\* a node that never reports itself terminal
is_terminalNever(path) == FALSE

\* Node::is_terminal
is_terminal(path) == is_over(nodes[path].board)

\* Node::is_fully_expanded: possible_moves.is_empty()
is_fully_expanded(path) ==
    nodes[path].popped = Len(PossibleMoves(nodes[path].board))

\* f32 scores: a finite number in millionths, an infinity, or a NaN
Num(x) == [kind |-> "num", val |-> x]
NaN == [kind |-> "nan", val |-> 0]
Inf == [kind |-> "inf", val |-> 0]

\* (v as f32).ln().sqrt() in millionths, for v in 1..8
SqrtLnMicro ==
    <<0, 832555, 1048147, 1177410, 1268636, 1338566, 1394959, 1442027>>

\* the exploration constants, in tenths: best_child(1.4) of the search and
\* exploration_constant: 0.0 of the agent
SearchC10 == 14
AgentC10 == 0

\* Node::ucb1_from_ref(node, c, visits_to_parent):
\*     wins + c * (visits_to_parent.ln().sqrt() / (visits + 1))
\* ln(0) is -inf and its square root NaN, which every later operation
\* keeps; visits + 1 is a u16 sum (it wraps to 0 in a release build, and
\* x / 0 is an infinity, or NaN for x = 0; 0 * infinity is NaN). The
\* algebraic_* operations may round differently but keep NaN and infinity.
ucb1_from_ref(node, c10, visits_to_parent) ==
    LET den == (node.visits + 1) % U16Mod
    IN IF visits_to_parent = 0 THEN NaN
       ELSE LET root == SqrtLnMicro[visits_to_parent]
            IN IF den = 0
                 THEN IF root = 0 \/ c10 = 0 THEN NaN ELSE Inf
                 ELSE Num(node.wins * 1000000 + (c10 * root) \div (10 * den))

\* the sign a NaN can carry: the platform's choice
NanSigns == {"neg", "pos"}

\* the place of a score in f32::total_cmp's order:
\* -NaN < finite numbers < +infinity < +NaN
TotalRank(x, sign) ==
    IF x.kind = "nan" THEN (IF sign = "neg" THEN 0 ELSE 3)
    ELSE IF x.kind = "inf" THEN 2 ELSE 1

\* a.total_cmp(&b) == Ordering::Greater
TotalCmpGreater(a, b, sign) ==
    \/ TotalRank(a, sign) > TotalRank(b, sign)
    \/ TotalRank(a, sign) = 1 /\ TotalRank(b, sign) = 1 /\ a.val > b.val

\* the order of the keys of next_nodes (BTreeMap<Action<4>, _>): the
\* derived order of the array of Option<Move>, None first
MoveRank(m) ==
    IF m = NoMove THEN 0 ELSE CHOOSE i \in DOMAIN Moves : Moves[i] = m

RECURSIVE ActionLessFrom(_, _, _)
ActionLessFrom(a, b, k) ==
    IF k > Len(a) THEN FALSE
    ELSE IF MoveRank(a[k]) # MoveRank(b[k]) THEN MoveRank(a[k]) < MoveRank(b[k])
    ELSE ActionLessFrom(a, b, k + 1)

ActionLess(a, b) == ActionLessFrom(a, b, 1)

\* the keys of a child map in iteration order
RECURSIVE KeyOrder(_)
KeyOrder(actions) ==
    IF actions = {} THEN <<>>
    ELSE LET first == CHOOSE a \in actions :
                          \A b \in actions \ {a} : ActionLess(a, b)
         IN <<first>> \o KeyOrder(actions \ {first})

\* Iterator::max_by over the children in key order: the comparator gets the
\* best so far as node1, scored with the visits of self, and the next child
\* as node2, scored with that child's own visits; the best so far is kept
\* only when it compares Greater
RECURSIVE MaxByFrom(_, _, _, _, _, _)
MaxByFrom(path, c10, sign, keys, i, acc) ==
    IF i > Len(keys) THEN acc
    ELSE LET node1 == nodes[ChildOf(path, acc)]
             node2 == nodes[ChildOf(path, keys[i])]
             greater ==
                 TotalCmpGreater(
                     ucb1_from_ref(node1, c10, nodes[path].visits),
                     ucb1_from_ref(node2, c10, node2.visits), sign)
         IN MaxByFrom(path, c10, sign, keys, i + 1,
                      IF greater THEN acc ELSE keys[i])

\* Node::best_child(c) while no counter changes: the actions it can return
\* (the empty set for None, else one action per sign a NaN can carry)
best_child(path, c10) ==
    IF nodes[path].next_nodes = {} THEN {}
    ELSE LET keys == KeyOrder(nodes[path].next_nodes)
         IN {MaxByFrom(path, c10, sign, keys, 2, keys[1]) : sign \in NanSigns}

\* Node::best_child(1.4) during the search: the children the call can
\* return. It holds the next_nodes mutex, so the child map is fixed during
\* the call, but max_by loads wins and visits of the node and of its
\* children one at a time while other workers' backpropagate (which takes no
\* lock) changes them: with several workers every child is a possible
\* result; a lone worker gets best_child's value. None is the result
\* exactly when the map is empty.
BestChildSet(path) ==
    IF Cardinality(spawned) = 1 THEN best_child(path, SearchC10)
    ELSE nodes[path].next_nodes

\* Node::rollout: the outcomes a random playout from the board can have:
\* while !cur_board.is_over() it steps the board by one reasonable move per
\* snake, then returns 1 iff the winner is `you`
RECURSIVE RolloutOutcomes(_)
RolloutOutcomes(board) ==
    IF is_over(board)
      THEN {IF get_winner(board) = You THEN 1 ELSE 0}
      ELSE LET combos == random_reasonable_move_for_each_snake(board)
           IN UNION {RolloutOutcomes(simulate_with_moves(board, combos[i]).board) :
                       i \in DOMAIN combos}

\* the boards of the small game, and rollout's outcomes on each (computed once)
Boards == {Board(left, sm, winner) :
             left \in 0..MaxDepth, sm \in MoveLists, winner \in {You, NoSnake}}
RolloutTable == [board \in Boards |-> RolloutOutcomes(board)]
rollout(board) == RolloutTable[board]

\* the root boards a search is started on
RootBoards ==
    {Board(MaxDepth, OneMove, NoSnake), Board(MaxDepth, TwoSnakes, NoSnake),
     Board(1, OneMove, NoSnake), Board(1, TwoSnakes, NoSnake),
     Board(0, OneMove, You), Board(0, TwoSnakes, NoSnake)}

SearchStart(boards, limit) ==
    /\ stop = FALSE
    /\ \E board \in boards : nodes = (RootPath :> new_root(board))
    /\ wpc = [w \in Workers |-> "idle"]
    /\ wnode = [w \in Workers |-> RootPath]
    /\ wmoves = [w \in Workers |-> <<>>]
    /\ wresult = [w \in Workers |-> 0]
    /\ iterations = 0
    /\ maxIter = limit
    /\ inserts = (RootPath :> 0)
    /\ stopAtCall = [w \in Workers |-> FALSE]
    /\ ran = [w \in Workers |-> FALSE]
    /\ expandRes = [w \in Workers |-> "-"]
    /\ passes = (RootPath :> 0)
    /\ outcomes = (RootPath :> 0)
    /\ rollouts = (RootPath :> 0)
    /\ rollwins = (RootPath :> 0)
    /\ installed = [w \in Workers |-> NoPath]

(***************************************************************************)
(* mcts_search, one action per atomic operation on shared state.           *)
(***************************************************************************)
\* the handler sets the stop flag: stop.store(true)
SetStop ==
    /\ ~stop
    /\ stop' = TRUE
    /\ UNCHANGED <<nodes, wpc, wnode, wmoves, wresult, iterations, maxIter,
                   inserts, stopAtCall, ran, expandRes,
                   hvars, avars, lvars, qvars, evars, svars, gvars>>

\* a worker thread calls mcts_search(root, you, stop)
Call(w) ==
    /\ w \in spawned
    /\ wpc[w] = "idle"
    /\ wpc' = [wpc EXCEPT ![w] = "loop"]
    /\ stopAtCall' = [stopAtCall EXCEPT ![w] = stop]
    /\ UNCHANGED <<stop, nodes, wnode, wmoves, wresult, iterations, maxIter,
                   inserts, ran, expandRes,
                   hvars, avars, lvars, qvars, evars, svars, gvars>>

\* a loop that tests the flag only after its first iteration
BreakAfterFirst(w) == stop /\ ran[w]

\* if stop.load(Relaxed) { break }
ShouldBreak(w) == stop

\* the top of the loop: leave on stop, else node = root_node.clone()
LoopTop(w) ==
    /\ wpc[w] = "loop"
    /\ IF ShouldBreak(w)
         THEN /\ wpc' = [wpc EXCEPT ![w] = "returned"]
              /\ UNCHANGED <<wnode, iterations, ran>>
         ELSE /\ iterations < maxIter
              /\ iterations' = iterations + 1
              /\ wnode' = [wnode EXCEPT ![w] = RootPath]
              /\ wpc' = [wpc EXCEPT ![w] = "select"]
              /\ ran' = [ran EXCEPT ![w] = TRUE]
    /\ UNCHANGED <<stop, nodes, wmoves, wresult, maxIter, inserts, stopAtCall,
                   expandRes,
                   hvars, avars, lvars, qvars, evars, svars, gvars>>

\* while !node.is_terminal() && node.is_fully_expanded()
\*     { node = node.best_child(1.4).expect(..).1 }
\* one pass of the loop; the expect panics when best_child returns None
Select(w) ==
    /\ wpc[w] = "select"
    /\ IF ~is_terminal(wnode[w]) /\ is_fully_expanded(wnode[w])
         THEN IF BestChildSet(wnode[w]) = {}
                THEN /\ wpc' = [wpc EXCEPT ![w] = "failed"]
                     /\ UNCHANGED wnode
                ELSE /\ \E action \in BestChildSet(wnode[w]) :
                            wnode' = [wnode EXCEPT ![w] = ChildOf(@, action)]
                     /\ UNCHANGED wpc
         ELSE /\ wpc' = [wpc EXCEPT ![w] =
                           IF ~is_terminal(wnode[w]) THEN "expand" ELSE "rollout"]
              /\ UNCHANGED wnode
    /\ UNCHANGED <<stop, nodes, wmoves, wresult, iterations, maxIter, inserts,
                   stopAtCall, ran, expandRes,
                   hvars, avars, lvars, qvars, evars, svars, gvars>>

\* a pop that hands out the front item and leaves it in the queue
PopResultPeek(path) ==
    LET n == nodes[path]
        items == PossibleMoves(n.board)
    IN IF n.popped = Len(items)
         THEN [some |-> FALSE, item |-> <<>>, popped |-> n.popped]
         ELSE [some |-> TRUE, item |-> items[n.popped + 1], popped |-> n.popped]

\* a pop that hands out the last item again when the queue is empty
PopResultRepeat(path) ==
    LET n == nodes[path]
        items == PossibleMoves(n.board)
    IN IF items = <<>>
         THEN [some |-> FALSE, item |-> <<>>, popped |-> n.popped]
         ELSE IF n.popped = Len(items)
           THEN [some |-> TRUE, item |-> items[n.popped], popped |-> n.popped]
           ELSE [some |-> TRUE, item |-> items[n.popped + 1],
                 popped |-> n.popped + 1]

\* self.possible_moves.pop_front() at its linearization point (the claiming
\* CAS, or the load of a null head): [some, item, popped]
PopResult(path) ==
    LET n == nodes[path]
        items == PossibleMoves(n.board)
    IN IF n.popped = Len(items)
         THEN [some |-> FALSE, item |-> <<>>, popped |-> n.popped]
         ELSE [some |-> TRUE, item |-> items[n.popped + 1],
               popped |-> n.popped + 1]

\* expand, first part: let Some(moves) = self.possible_moves.pop_front()
\*                     else { return }
ExpandPop(w) ==
    /\ wpc[w] = "expand"
    /\ LET r == PopResult(wnode[w]) IN
         IF r.some
           THEN /\ nodes' = [nodes EXCEPT ![wnode[w]].popped = r.popped]
                /\ wmoves' = [wmoves EXCEPT ![w] = r.item]
                /\ wpc' = [wpc EXCEPT ![w] = "insert"]
                /\ UNCHANGED expandRes
           ELSE /\ wpc' = [wpc EXCEPT ![w] = "rollout"]
                /\ expandRes' = [expandRes EXCEPT ![w] = "noop"]
                /\ UNCHANGED <<nodes, wmoves>>
    /\ UNCHANGED <<stop, wnode, wresult, iterations, maxIter, inserts,
                   stopAtCall, ran,
                   hvars, avars, lvars, qvars, evars, svars, gvars>>

\* a search that goes on from the child it has just installed
NodeAfterExpandChild(w, child) == child

\* node.clone().expand(you): `node` still is the node the loop stopped at
NodeAfterExpand(w, child) == wnode[w]

\* expand, second part: simulate the claimed moves, build the child with
\* new_child and insert (action, child) under the children mutex
ExpandInsert(w) ==
    /\ wpc[w] = "insert"
    /\ LET path == wnode[w]
           sim == simulate_with_moves(nodes[path].board, wmoves[w])
           child == ChildOf(path, sim.action)
       IN /\ nodes' = [q \in DOMAIN nodes \cup {child} |->
                         IF q = child THEN new_child(sim.board)
                         ELSE IF q = path
                           THEN [nodes[q] EXCEPT !.next_nodes = @ \cup {sim.action}]
                           ELSE nodes[q]]
          /\ inserts' = [q \in DOMAIN nodes \cup {child} |->
                           IF q = path THEN inserts[q] + 1
                           ELSE IF q \in DOMAIN inserts THEN inserts[q] ELSE 0]
          /\ passes' = [q \in DOMAIN nodes \cup {child} |->
                          IF q \in DOMAIN passes THEN passes[q] ELSE 0]
          /\ outcomes' = [q \in DOMAIN nodes \cup {child} |->
                            IF q \in DOMAIN outcomes THEN outcomes[q] ELSE 0]
          /\ rollouts' = [q \in DOMAIN nodes \cup {child} |->
                            IF q \in DOMAIN rollouts THEN rollouts[q] ELSE 0]
          /\ rollwins' = [q \in DOMAIN nodes \cup {child} |->
                            IF q \in DOMAIN rollwins THEN rollwins[q] ELSE 0]
          /\ installed' = [installed EXCEPT ![w] =
                               IF spawned = {w} THEN child ELSE NoPath]
          /\ wnode' = [wnode EXCEPT ![w] = NodeAfterExpand(w, child)]
    /\ wmoves' = [wmoves EXCEPT ![w] = <<>>]
    /\ wpc' = [wpc EXCEPT ![w] = "rollout"]
    /\ expandRes' = [expandRes EXCEPT ![w] = "installed"]
    /\ UNCHANGED <<stop, wresult, iterations, maxIter, stopAtCall, ran,
                   avars, lvars, qvars, evars, svars, gvars>>

\* let result = node.clone().rollout(you)
Rollout(w) ==
    /\ wpc[w] = "rollout"
    /\ \E r \in rollout(nodes[wnode[w]].board) :
           /\ wresult' = [wresult EXCEPT ![w] = r]
           /\ rollwins' = [rollwins EXCEPT ![wnode[w]] = @ + r]
    /\ rollouts' = [rollouts EXCEPT ![wnode[w]] = @ + 1]
    /\ wpc' = [wpc EXCEPT ![w] = "bp_visits"]
    /\ UNCHANGED <<stop, nodes, wnode, wmoves, iterations, maxIter, inserts,
                   stopAtCall, ran, expandRes,
                   passes, outcomes, installed, avars, lvars, qvars, evars, svars, gvars>>

\* AtomicU16::fetch_add(amount): the new value, wrapping around
FetchAdd(counter, amount) == (counter + amount) % U16Mod

\* a pass that adds the result to visits (and 1 to wins)
VisitsAmountIsResult(w) == wresult[w]

\* what a pass adds to visits: fetch_add(1, ..)
VisitsAmount(w) == 1

\* backpropagate: self.visits.fetch_add(1, AcqRel)
BpVisits(w) ==
    /\ wpc[w] = "bp_visits"
    /\ nodes' = [nodes EXCEPT ![wnode[w]].visits = FetchAdd(@, VisitsAmount(w))]
    /\ wpc' = [wpc EXCEPT ![w] = "bp_wins"]
    /\ UNCHANGED <<stop, wnode, wmoves, wresult, iterations, maxIter, inserts,
                   stopAtCall, ran, expandRes,
                   hvars, avars, lvars, qvars, evars, svars, gvars>>

\* backpropagate: self.wins.fetch_add(result, AcqRel); then the parent, if
\* parent_node.upgrade() gives one (the root has none: the pass is over)
BpWins(w) ==
    /\ wpc[w] = "bp_wins"
    /\ nodes' = [nodes EXCEPT ![wnode[w]].wins = FetchAdd(@, wresult[w])]
    /\ passes' = [passes EXCEPT ![wnode[w]] = @ + 1]
    /\ outcomes' = [outcomes EXCEPT ![wnode[w]] = @ + wresult[w]]
    /\ IF wnode[w] = RootPath
         THEN /\ wpc' = [wpc EXCEPT ![w] = "loop"]
              /\ wresult' = [wresult EXCEPT ![w] = 0]
              /\ expandRes' = [expandRes EXCEPT ![w] = "-"]
              /\ installed' = [installed EXCEPT ![w] = NoPath]
              /\ UNCHANGED wnode
         ELSE /\ wpc' = [wpc EXCEPT ![w] = "bp_visits"]
              /\ wnode' = [wnode EXCEPT ![w] = ParentOf(@)]
              /\ UNCHANGED <<wresult, expandRes, installed>>
    /\ UNCHANGED <<stop, wmoves, iterations, maxIter, inserts, stopAtCall, ran,
                   rollouts, rollwins, avars, lvars, qvars, evars, svars, gvars>>

mcts_search(w) ==
    \/ Call(w)
    \/ LoopTop(w)
    \/ Select(w)
    \/ ExpandPop(w)
    \/ ExpandInsert(w)
    \/ Rollout(w)
    \/ BpVisits(w)
    \/ BpWins(w)

(***************************************************************************)
(* MctsAgent::choose_move: it builds the root, spawns one worker, sleeps,  *)
(* sets the stop flag (SetStop), joins the worker and reads the root.      *)
(***************************************************************************)
NotChosen == "-"

\* a default of Down
DefaultMoveDown == "Down"

\* the Move choose_move falls back to
DefaultMove == "Up"

\* a read of the slot after the one of `you`
OwnMoveNextSlot(action) == action[You + 2]

\* action.into_inner()[you.0 as usize]
OwnMove(action) == action[You + 1]

\* what the tail of choose_move can return: the move of `you` in the action
\* best_child(self.exploration_constant) gives, else the default
ChooseMoveResults ==
    LET best == best_child(RootPath, AgentC10)
    IN IF best = {} THEN {DefaultMove}
       ELSE {IF OwnMove(action) # NoMove THEN OwnMove(action) ELSE DefaultMove :
               action \in best}

\* a handler that does not wait for its workers
JoinedWithoutWaiting == TRUE

\* handle.join() has returned for every worker: it returned or panicked
Joined == \A w \in spawned : wpc[w] \in {"returned", "failed"}

\* after stop.store(true) and the joins: read the root
ChooseMove ==
    /\ chosen = NotChosen
    /\ stop
    /\ Joined
    /\ \E mv \in ChooseMoveResults : chosen' = mv
    /\ UNCHANGED <<stop, nodes, wpc, wnode, wmoves, wresult, iterations,
                   maxIter, inserts, stopAtCall, ran, expandRes, spawned,
                   hvars, lvars, qvars, evars, svars, gvars>>

\* the handler spawns these workers and has not returned yet
Spawn(workers) ==
    /\ spawned = workers
    /\ chosen = NotChosen

(***************************************************************************)
(* The Node methods as far as they lock: each call of a thread, one action *)
(* per lock, unlock and lock-free step. std::sync::Mutex is not reentrant, *)
(* and lock() blocks while another thread (or the caller) holds the mutex. *)
(***************************************************************************)
\* the shape the shared tree can grow to: a root, two children, a grandchild
LockTree == {<<>>, <<"Up">>, <<"Down">>, <<"Up", "Up">>}
\* no thread: the mutex is unlocked
NoThread == 0

LockStart ==
    /\ lnodes = {RootPath}
    /\ lholder = [n \in LockTree |-> NoThread]
    /\ lpc = [t \in Workers |-> "idle"]
    /\ lat = [t \in Workers |-> RootPath]
    /\ lstack = [t \in Workers |-> <<>>]

\* the entries of a node's child map, and the children it can still get
LockChildren(n) == {c \in lnodes : c # RootPath /\ ParentOf(c) = n}
Absent(n) == {c \in LockTree \ lnodes : ParentOf(c) = n}
\* the threads whose expand has claimed a combination of the node
Expanding(n) == {t \in Workers : lpc[t] = "expand_lock" /\ lat[t] = n}

\* self.next_nodes.lock(): returns once the mutex is free
Lock(t, n) ==
    /\ lholder[n] = NoThread
    /\ lholder' = [lholder EXCEPT ![n] = t]

\* the MutexGuard is dropped
Unlock(t, n) == lholder' = [lholder EXCEPT ![n] = NoThread]

\* expand: pop_front gave a combination (one per child still absent)
ExpandCall(t) ==
    /\ lpc[t] = "idle"
    /\ \E n \in lnodes :
          /\ Cardinality(Expanding(n)) < Cardinality(Absent(n))
          /\ lat' = [lat EXCEPT ![t] = n]
    /\ lpc' = [lpc EXCEPT ![t] = "expand_lock"]
    /\ UNCHANGED <<lnodes, lholder, lstack>>

\* expand: let mut next_nodes_lock = self.next_nodes.lock().unwrap();
\*         next_nodes_lock.insert(action, Arc::new(node))
ExpandLock(t) ==
    /\ lpc[t] = "expand_lock"
    /\ Lock(t, lat[t])
    /\ \E c \in Absent(lat[t]) : lnodes' = lnodes \cup {c}
    /\ lpc' = [lpc EXCEPT ![t] = "expand_unlock"]
    /\ UNCHANGED <<lat, lstack>>

\* expand returns: the guard is dropped
ExpandUnlock(t) ==
    /\ lpc[t] = "expand_unlock"
    /\ Unlock(t, lat[t])
    /\ lpc' = [lpc EXCEPT ![t] = "idle"]
    /\ UNCHANGED <<lnodes, lat, lstack>>

\* best_child is called on a node
BestChildCall(t) ==
    /\ lpc[t] = "idle"
    /\ \E n \in lnodes : lat' = [lat EXCEPT ![t] = n]
    /\ lpc' = [lpc EXCEPT ![t] = "best_lock"]
    /\ UNCHANGED <<lnodes, lholder, lstack>>

\* best_child: self.next_nodes.lock().unwrap(); max_by loads the counters
\* of the node and of its children, which are atomics
BestChildLock(t) ==
    /\ lpc[t] = "best_lock"
    /\ Lock(t, lat[t])
    /\ lpc' = [lpc EXCEPT ![t] = "best_unlock"]
    /\ UNCHANGED <<lnodes, lat, lstack>>

\* best_child returns: the guard is dropped at the end of the expression
BestChildUnlock(t) ==
    /\ lpc[t] = "best_unlock"
    /\ Unlock(t, lat[t])
    /\ lpc' = [lpc EXCEPT ![t] = "idle"]
    /\ UNCHANGED <<lnodes, lat, lstack>>

\* get_depth is called on a node
GetDepthCall(t) ==
    /\ lpc[t] = "idle"
    /\ \E n \in lnodes : lat' = [lat EXCEPT ![t] = n]
    /\ lpc' = [lpc EXCEPT ![t] = "depth_lock"]
    /\ UNCHANGED <<lnodes, lholder, lstack>>

\* get_depth: self.next_nodes.lock().unwrap().values(): the children to
\* visit are those in the map now (it cannot change while the guard lives)
GetDepthLock(t) ==
    /\ lpc[t] = "depth_lock"
    /\ Lock(t, lat[t])
    /\ lstack' = [lstack EXCEPT ![t] =
                     Append(@, [node |-> lat[t], todo |-> LockChildren(lat[t])])]
    /\ lpc' = [lpc EXCEPT ![t] = "depth_iter"]
    /\ UNCHANGED <<lnodes, lat>>

\* a get_depth that goes on to the parent of the node instead
GetDepthTargetParent(node, c) == IF node = RootPath THEN c ELSE ParentOf(node)

\* .map(|n| n.get_depth() + 1): the node the recursive call is made on
GetDepthTarget(node, c) == c

\* get_depth: the next value of the iterator, with the guard still held:
\* the recursive call on it; after the last one the guard is dropped and
\* the call returns to its caller
GetDepthIter(t) ==
    /\ lpc[t] = "depth_iter"
    /\ LET top == lstack[t][Len(lstack[t])]
           rest == SubSeq(lstack[t], 1, Len(lstack[t]) - 1)
       IN IF top.todo # {}
            THEN /\ \E c \in top.todo :
                       /\ lat' = [lat EXCEPT ![t] = GetDepthTarget(top.node, c)]
                       /\ lstack' = [lstack EXCEPT ![t] =
                             Append(rest, [top EXCEPT !.todo = @ \ {c}])]
                 /\ lpc' = [lpc EXCEPT ![t] = "depth_lock"]
                 /\ UNCHANGED lholder
            ELSE /\ Unlock(t, top.node)
                 /\ lstack' = [lstack EXCEPT ![t] = rest]
                 /\ lat' = [lat EXCEPT ![t] =
                              IF rest = <<>> THEN top.node
                              ELSE rest[Len(rest)].node]
                 /\ lpc' = [lpc EXCEPT ![t] =
                              IF rest = <<>> THEN "idle" ELSE "depth_iter"]
    /\ UNCHANGED lnodes

\* rollout is called on a node: it works on a copy of the board
RolloutCall(t) ==
    /\ lpc[t] = "idle"
    /\ \E n \in lnodes : lat' = [lat EXCEPT ![t] = n]
    /\ lpc' = [lpc EXCEPT ![t] = "rollout"]
    /\ UNCHANGED <<lnodes, lholder, lstack>>

RolloutReturn(t) ==
    /\ lpc[t] = "rollout"
    /\ lpc' = [lpc EXCEPT ![t] = "idle"]
    /\ UNCHANGED <<lnodes, lholder, lat, lstack>>

\* backpropagate is called on a node
BackpropagateCall(t) ==
    /\ lpc[t] = "idle"
    /\ \E n \in lnodes : lat' = [lat EXCEPT ![t] = n]
    /\ lpc' = [lpc EXCEPT ![t] = "backpropagate"]
    /\ UNCHANGED <<lnodes, lholder, lstack>>

\* backpropagate: the two fetch_adds, then parent.backpropagate(result) if
\* parent_node.upgrade() gives a parent
BackpropagateStep(t) ==
    /\ lpc[t] = "backpropagate"
    /\ IF lat[t] = RootPath
         THEN lpc' = [lpc EXCEPT ![t] = "idle"] /\ UNCHANGED lat
         ELSE lat' = [lat EXCEPT ![t] = ParentOf(@)] /\ UNCHANGED lpc
    /\ UNCHANGED <<lnodes, lholder, lstack>>

\* the steps of thread t
NodeMethods(t) ==
    \/ ExpandCall(t) \/ ExpandLock(t) \/ ExpandUnlock(t)
    \/ BestChildCall(t) \/ BestChildLock(t) \/ BestChildUnlock(t)
    \/ GetDepthCall(t) \/ GetDepthLock(t) \/ GetDepthIter(t)
    \/ RolloutCall(t) \/ RolloutReturn(t)
    \/ BackpropagateCall(t) \/ BackpropagateStep(t)

NextLocks ==
    \E t \in Workers :
        /\ NodeMethods(t)
        /\ UNCHANGED <<stop, nodes, wpc, wnode, wmoves, wresult, iterations,
                       maxIter, inserts, stopAtCall, ran, expandRes,
                       hvars, avars, qvars, evars, svars, gvars>>

(***************************************************************************)
(* A MoveCombinationIterator driven to its end and beyond.                 *)
(***************************************************************************)
\* the move lists a snake is given: none, or a run of consecutive Moves
EnumLists ==
    {<<>>} \cup UNION {{SubSeq(Moves, i, j) :
                           j \in {k \in DOMAIN Moves : k >= i /\ k - i < MaxMoves}} :
                         i \in DOMAIN Moves}

\* MoveCombinationIterator::new(snake_moves), snake i - 1 with the i-th list
EnumStart ==
    /\ \E n \in 0..MaxSnakes : \E lists \in [1..n -> EnumLists] :
           esnakes = [i \in 1..n |-> <<i - 1, lists[i]>>]
    /\ eit = MoveCombinationIterator_new(esnakes)
    /\ eyield = <<>>
    /\ enone = 0

\* one call of next on the iterator
EnumNext ==
    /\ enone < MaxNone
    /\ LET r == MoveCombinationIterator_next(eit)
       IN /\ eit' = r.it
          /\ IF r.some
               THEN eyield' = Append(eyield, r.item) /\ UNCHANGED enone
               ELSE enone' = enone + 1 /\ UNCHANGED eyield
    /\ UNCHANGED <<esnakes, qvars, mvars, svars, gvars>>

EnumUnused ==
    /\ esnakes = <<>>
    /\ eit = MoveCombinationIterator_new(<<>>)
    /\ eyield = <<>>
    /\ enone = 0

(***************************************************************************)
(* The HTTP handlers start, get_move and end (src/main.rs) on the shared   *)
(* registry GameStates = Arc<Mutex<HashMap<String, SnakeIDMap>>>.          *)
(* A handler that panics answers nothing: the request fails.               *)
(***************************************************************************)
GameIds == 1..NumGames

Answer(req, resp) == [req |-> req, resp |-> resp]
Request(game, wellformed) == [game |-> game, wellformed |-> wellformed]

\* start: serde_json::from_str(&body).unwrap(), then
\* game_states.lock().unwrap().insert(id, snake_id_map)
StartRequest(game, wellformed) ==
    /\ Len(responses) < MaxRequests
    /\ requests' = Append(requests, Request(game, wellformed))
    /\ IF wellformed /\ ~poisoned
         THEN /\ registry' = registry \cup {game}
              /\ responses' = Append(responses, Answer("start", "ok"))
         ELSE /\ responses' = Append(responses, Answer("start", "failed"))
              /\ UNCHANGED registry
    /\ UNCHANGED <<poisoned, qvars, mvars, evars, gvars>>

\* end: serde_json::from_str(&body).unwrap(), then
\* game_states.lock().unwrap().remove(&id)
EndRequest(game, wellformed) ==
    /\ Len(responses) < MaxRequests
    /\ requests' = Append(requests, Request(game, wellformed))
    /\ IF wellformed /\ ~poisoned
         THEN /\ registry' = registry \ {game}
              /\ responses' = Append(responses, Answer("end", "ok"))
         ELSE /\ responses' = Append(responses, Answer("end", "failed"))
              /\ UNCHANGED registry
    /\ UNCHANGED <<poisoned, qvars, mvars, evars, gvars>>

\* HashMap::get(&game_states, &decoded.game.id) is Some
Lookup(game) == game \in registry

\* get_move: decode_state(body, game_states).unwrap(), calc_move, Json.
\* decode_state: game_states.lock().unwrap() panics on a poisoned mutex;
\* from_str(..)? returns Err on a malformed body (the guard is dropped, the
\* unwrap in get_move panics); HashMap::get(..).unwrap() panics on an
\* unknown game id while the guard is alive, which poisons the mutex.
MoveRequest(game, wellformed) ==
    /\ Len(responses) < MaxRequests
    /\ requests' = Append(requests, Request(game, wellformed))
    /\ IF poisoned \/ ~wellformed
         THEN /\ responses' = Append(responses, Answer("move", "failed"))
              /\ UNCHANGED poisoned
         ELSE IF Lookup(game)
           THEN /\ responses' = Append(responses, Answer("move", "move"))
                /\ UNCHANGED poisoned
           ELSE /\ responses' = Append(responses, Answer("move", "failed"))
                /\ poisoned' = TRUE
    /\ UNCHANGED <<registry, qvars, mvars, evars, gvars>>

\* main: GameStates::new(Mutex::new(HashMap::new()))
ServerStart ==
    /\ registry = {}
    /\ poisoned = FALSE
    /\ responses = <<>>
    /\ requests = <<>>

(***************************************************************************)
(* TournamentStats::from_results(results, agent_names): the loop over the  *)
(* results, one action per result, and the return.                         *)
(***************************************************************************)
\* Option<usize>::None
NoWinner == -1
\* u32::MAX as the start of min_length: above every game length; the
\* largest number the model checker's integers hold stands for it
U32Max == 2147483647
NoStats == <<>>
NoResult == <<>>
\* the lengths of the games played
TurnsOfGames == {1, 3}

\* the GameResults a runner can hand in: the winner index may be none, an
\* agent's, or one past the agents; num_snakes may exceed the agents
GameResults ==
    [winner : {NoWinner} \cup 0..NumAgents,
     turns : TurnsOfGames,
     num_snakes : 0..(NumAgents + 1)]

\* AgentStats::new(name): all counters 0 (agent i is at index i + 1)
AgentStats_new ==
    [wins |-> 0, losses |-> 0, draws |-> 0, total_games |-> 0, total_turns |-> 0]

StatsStart ==
    /\ seen = 0
    /\ result = NoResult
    /\ agent_stats = [i \in 1..NumAgents |-> AgentStats_new]
    /\ total_draws = 0
    /\ min_length = U32Max
    /\ max_length = 0
    /\ total_turns = 0
    /\ tournament = NoStats

\* a match that credits the winner whatever its index is
ValidWinnerAny(res) == res.winner # NoWinner

\* Some(winner_idx) if winner_idx < agent_stats.len()
ValidWinner(res) ==
    res.winner # NoWinner /\ res.winner < Len(agent_stats)

\* the body of the match for one agent (index i, 0-based)
CountResult(stats, i, res) ==
    LET played == [stats EXCEPT !.total_games = @ + 1,
                                !.total_turns = @ + res.turns]
    IN IF ValidWinner(res)
         THEN IF i = res.winner
                THEN [played EXCEPT !.wins = @ + 1]
                ELSE IF i < res.num_snakes
                  THEN [played EXCEPT !.losses = @ + 1]
                  ELSE stats
         ELSE IF i < res.num_snakes
           THEN [played EXCEPT !.draws = @ + 1]
           ELSE stats

\* for result in results { .. }: one pass of the loop
FromResultsLoop ==
    /\ tournament = NoStats
    /\ seen < MaxResults
    /\ seen' = seen + 1
    /\ \E res \in GameResults :
          /\ result' = res
          /\ total_turns' = total_turns + res.turns
          /\ min_length' = IF res.turns < min_length
                             THEN res.turns ELSE min_length
          /\ max_length' = IF res.turns > max_length
                             THEN res.turns ELSE max_length
          /\ agent_stats' = [i \in 1..NumAgents |->
                                CountResult(agent_stats[i], i - 1, res)]
          /\ total_draws' = IF ValidWinner(res)
                              THEN total_draws ELSE total_draws + 1
    /\ UNCHANGED <<tournament, qvars, mvars, evars, svars>>

\* after the loop: total_games = results.len(), avg_game_length (as the
\* fraction it is computed from), and the struct returned
FromResultsReturn ==
    /\ tournament = NoStats
    /\ tournament' =
          [agent_stats |-> agent_stats,
           total_games |-> seen,
           total_draws |-> total_draws,
           avg_game_length |->
               IF seen > 0 THEN <<total_turns, seen>> ELSE <<0, 1>>,
           min_game_length |-> IF min_length = U32Max THEN 0 ELSE min_length,
           max_game_length |-> max_length]
    /\ UNCHANGED <<seen, result, agent_stats, total_draws, min_length,
                   max_length, total_turns, qvars, mvars, evars, svars>>

NextStats == FromResultsLoop \/ FromResultsReturn

\* the queue variables of a run that only searches, and the search
\* variables of a run that only pops a queue
QueueUnused ==
    /\ NewFromIterator(0)
    /\ qpc = [t \in Threads |-> "idle"]
    /\ current = [t \in Threads |-> Null]
    /\ next_raw = [t \in Threads |-> Null]
    /\ ret = [t \in Threads |-> <<>>]
    /\ taken = <<>>
    /\ claimSeq = <<>>
    /\ dropped = <<>>
    /\ noneSeen = FALSE
    /\ beginNone = [t \in Threads |-> FALSE]
    /\ doneMax = 0
    /\ beginMax = [t \in Threads |-> 0]
    /\ earlyNone = FALSE
    /\ lastRet = [t \in Threads |-> "-"]
    /\ tries = [t \in Threads |-> 0]

\* the state of the parts a run does not use
OthersUnused ==
    QueueUnused /\ EnumUnused /\ ServerStart /\ LockStart /\ StatsStart

Init == SearchStart(RootBoards, MaxIter) /\ Spawn(Workers) /\ OthersUnused

Next ==
    \/ SetStop
    \/ \E w \in Workers : mcts_search(w)

Spec == Init /\ [][Next]_vars

\* one worker, on a root whose only child ends the game: every rollout wins
LongBoards == {Board(1, OneMove, NoSnake)}

InitLong == SearchStart(LongBoards, LongIter) /\ Spawn({1}) /\ OthersUnused

NextLong ==
    \/ SetStop
    \/ mcts_search(1)

\* the long run ends before the handler sets the stop flag
NextRun == mcts_search(1)

SpecLong == InitLong /\ [][NextRun]_vars

\* one worker, also on roots where a live snake has no reasonable move
StuckBoards ==
    {Board(MaxDepth, StuckSnake, NoSnake), Board(1, StuckSnake, NoSnake),
     Board(MaxDepth, TwoSnakes, NoSnake), Board(1, OneMove, NoSnake)}

InitStuck == SearchStart(StuckBoards, MaxIter) /\ Spawn({1}) /\ OthersUnused

SpecStuck == InitStuck /\ [][NextLong]_vars

\* Spec with the scheduler's fairness: a thread that can take a step
\* eventually takes one
FairSpec == Spec /\ \A w \in Workers : WF_vars(mcts_search(w))

\* a run of the queue alone: no search is started
SearchUnused ==
    /\ SearchStart({Board(0, <<>>, NoSnake)}, 0)
    /\ Spawn({})

QInit ==
    /\ QueueStart /\ SearchUnused /\ EnumUnused /\ ServerStart
    /\ LockStart /\ StatsStart

SpecQueue == QInit /\ [][QNext]_vars

\* MctsAgent::choose_move: one worker on the root, then the final read
AgentBoards ==
    {Board(MaxDepth, TwoSnakes, NoSnake), Board(MaxDepth, OneMove, NoSnake),
     Board(1, TwoSnakes, NoSnake), Board(1, OtherOnly, NoSnake),
     Board(0, TwoSnakes, You)}

InitAgent == SearchStart(AgentBoards, AgentIter) /\ Spawn({1}) /\ OthersUnused

NextAgent ==
    \/ SetStop
    \/ mcts_search(1)
    \/ ChooseMove

SpecAgent == InitAgent /\ [][NextAgent]_vars

\* SpecAgent with the scheduler's fairness for the worker thread
FairSpecAgent == SpecAgent /\ WF_vars(mcts_search(1))

\* choose_move on boards where a snake runs into a dead end during the turn
TurnBoards ==
    {Board(MaxDepth, DeadEnd, NoSnake), Board(1, DeadEnd, NoSnake),
     Board(MaxDepth, StuckSnake, NoSnake), Board(MaxDepth, TwoSnakes, NoSnake)}

InitTurn == SearchStart(TurnBoards, AgentIter) /\ Spawn({1}) /\ OthersUnused

SpecTurn == InitTurn /\ [][NextAgent]_vars

\* the enumerator alone
InitEnum ==
    /\ EnumStart /\ SearchUnused /\ QueueUnused /\ ServerStart
    /\ LockStart /\ StatsStart

SpecEnum == InitEnum /\ [][EnumNext]_vars

\* the server alone
InitServer ==
    /\ ServerStart /\ SearchUnused /\ QueueUnused /\ EnumUnused
    /\ LockStart /\ StatsStart

\* the Node methods called by the threads on one shared tree
InitLocks ==
    /\ LockStart /\ SearchUnused /\ QueueUnused /\ EnumUnused /\ ServerStart
    /\ StatsStart

\* from_results alone
InitStats ==
    /\ StatsStart /\ SearchUnused /\ QueueUnused /\ EnumUnused /\ ServerStart
    /\ LockStart

SpecStats == InitStats /\ [][NextStats]_vars

SpecLocks == InitLocks /\ [][NextLocks]_vars

NextServer ==
    \E game \in GameIds, wellformed \in BOOLEAN :
        \/ StartRequest(game, wellformed)
        \/ MoveRequest(game, wellformed)
        \/ EndRequest(game, wellformed)

SpecServer == InitServer /\ [][NextServer]_vars

(***************************************************************************)
(* Properties of the queue (checked under SpecQueue).                      *)
(***************************************************************************)
is_empty == head = Null

\* the threads that have called pop_front
called == {t \in Threads : qpc[t] # "idle" \/ lastRet[t] # "-"}

Occurrences(seq, v) == Cardinality({i \in DOMAIN seq : seq[i] = v})

RECURSIVE TimesReturnedUpTo(_, _)
TimesReturnedUpTo(t, v) ==
    IF t = 0 THEN 0 ELSE Occurrences(ret[t], v) + TimesReturnedUpTo(t - 1, v)

\* how many successful pops, of all threads, returned the payload v
TimesReturned(v) == TimesReturnedUpTo(NumThreads, v)

\* every thread has popped until it saw None
AllDrained == \A t \in Threads : qpc[t] = "idle" /\ lastRet[t] = "none"

\* C1: no input element is returned by two pops, and once every thread has
\* popped until it saw None every input element was returned exactly once.
C1_ExactlyOnce ==
    /\ \A c \in Cells : TimesReturned(Payload(c)) <= 1
    /\ AllDrained => \A c \in Cells : TimesReturned(Payload(c)) = 1

C1_Witness ==
    /\ AllDrained
    /\ qlen = MaxLen
    /\ \A t \in Threads : Len(ret[t]) > 0

\* C2: a single consumer gets e1, e2, ... in input order; a pop that begins
\* after some pop returned None returns None (it never claims a cell), and
\* is_empty stays true from the first None on; an empty input returns nothing.
C2_FifoThenNone ==
    /\ \A t \in Threads :
         called \subseteq {t} => ret[t] = [i \in 1..Len(ret[t]) |-> Payload(i)]
    /\ \A t \in Threads :
         (beginNone[t] /\ qpc[t] # "idle") => qpc[t] = "load_head"
    /\ noneSeen => is_empty
    /\ qlen = 0 => \A t \in Threads : ret[t] = <<>>

C2_Witness ==
    /\ called = {1}
    /\ qlen = MaxLen
    /\ Len(ret[1]) = MaxLen
    /\ beginNone[1]
    /\ qpc[1] = "load_head"

\* C3: the successful claiming CASes take the cells in input order, one
\* each (the k-th claims position k); a pop that began after a pop returning
\* position i had completed claims only a position above i; a pop reads a
\* null head only when every cell has been claimed.
C3_Linearizable ==
    /\ claimSeq = [i \in 1..Len(claimSeq) |-> i]
    /\ \A t \in Threads :
         qpc[t] \in {"store_tag", "read_data"} => CellAt(current[t]) > beginMax[t]
    /\ ~earlyNone

C3_Witness ==
    \E t \in Threads :
        /\ qpc[t] = "read_data"
        /\ beginMax[t] > 0
        /\ \E u \in Threads \ {t} : qpc[u] = "help_cas"

\* C4: once the queue is dropped after k completed pops, the destructor has
\* dropped exactly the payloads no pop returned, each once, and none that a
\* pop returned: every payload has exactly one owner that drops it.
C4_DropAccounting ==
    ~qalive =>
        \A c \in Cells :
            /\ dropped[c] = (IF TimesReturned(Payload(c)) = 0 THEN 1 ELSE 0)
            /\ dropped[c] + taken[c] = 1

C4_Witness ==
    /\ ~qalive
    /\ qlen = MaxLen
    /\ \E c \in Cells : dropped[c] = 1
    /\ Cardinality({c \in Cells : taken[c] = 1}) = 2

(***************************************************************************)
(* Properties of the search (checked under Spec and SpecLong).             *)
(***************************************************************************)
Paths == DOMAIN nodes
visits(path) == nodes[path].visits
wins(path) == nodes[path].wins

\* C5: for every node of the tree, in every reachable state (also in the
\* middle of a backpropagation pass), 0 <= wins <= visits.
C5_WinsAtMostVisits ==
    \A path \in Paths : 0 <= wins(path) /\ wins(path) <= visits(path)

\* workers that are between expand's pop and its insert at the node
Inserting(path) == {w \in Workers : wpc[w] = "insert" /\ wnode[w] = path}

\* C6: a node never has more children than possible_moves held at its
\* construction; every child key is the action of a combination popped from
\* that queue; every insert added a new key (no combination expanded twice).
C6_ChildrenFromPending ==
    \A path \in Paths :
        LET items == PossibleMoves(nodes[path].board) IN
        /\ Cardinality(nodes[path].next_nodes) <= Len(items)
        /\ \A action \in nodes[path].next_nodes :
              \E i \in 1..nodes[path].popped : ActionOf(items[i]) = action
        /\ Cardinality(nodes[path].next_nodes) = inserts[path]
        /\ \A action \in nodes[path].next_nodes : ChildOf(path, action) \in Paths

C6_Witness ==
    \E path \in Paths :
        /\ Cardinality(nodes[path].next_nodes) = 2
        /\ Len(PossibleMoves(nodes[path].board)) = 2
        /\ \E action \in nodes[path].next_nodes :
               nodes[ChildOf(path, action)].next_nodes # {}

\* C7: an expand that finds possible_moves empty changes no node and goes
\* on to the rollout, any other expand claims exactly one combination; every
\* claimed combination installs one child, so of the expands racing for the
\* last combination exactly one installs a child.
C7_ExpandNoOpOrOne ==
    /\ [][\A w \in Workers :
            (wpc[w] = "expand" /\ wpc'[w] # "expand") =>
                IF is_fully_expanded(wnode[w])
                  THEN nodes' = nodes /\ wpc'[w] = "rollout"
                  ELSE /\ wpc'[w] = "insert"
                       /\ nodes'[wnode[w]].popped = nodes[wnode[w]].popped + 1]_vars
    /\ [](\A path \in Paths :
            /\ nodes[path].popped <= Len(PossibleMoves(nodes[path].board))
            /\ inserts[path] + Cardinality(Inserting(path)) = nodes[path].popped
            /\ Cardinality(nodes[path].next_nodes) = inserts[path])

C7_Witness ==
    /\ Len(PossibleMoves(nodes[RootPath].board)) = 1
    /\ Cardinality(nodes[RootPath].next_nodes) = 1
    /\ \E w1, w2 \in Workers :
          /\ expandRes[w1] = "noop" /\ wpc[w1] = "rollout" /\ wnode[w1] = RootPath
          /\ expandRes[w2] = "installed" /\ wpc[w2] = "rollout" /\ wnode[w2] = RootPath

\* the tree is as new_root built it
RootUntouched == nodes = (RootPath :> new_root(nodes[RootPath].board))

\* C8: a worker that calls mcts_search with the stop flag set begins no
\* iteration; when every call was made with the flag set, the root keeps
\* visits = wins = 0, no child and all pending combinations.
C8_StopBeforeStart ==
    /\ \A w \in Workers : stopAtCall[w] => ~ran[w]
    /\ (\A w \in Workers : wpc[w] # "idle" => stopAtCall[w]) => RootUntouched

C8_Witness ==
    /\ ~is_terminal(RootPath)
    /\ \A w \in Workers : wpc[w] = "returned" /\ stopAtCall[w]
    /\ RootUntouched

\* no worker is inside mcts_search
AllReturned == \A w \in Workers : wpc[w] \in {"idle", "returned", "failed"}

\* a worker's backpropagation pass adds to the root's visits in this step
RootVisitStep ==
    \E w \in Workers :
        wpc[w] = "bp_visits" /\ wnode[w] = RootPath /\ wpc'[w] = "bp_wins"

\* C9 as stated: visits(root) never decreases while stop is not set, and
\* does not change once stop is set.
C9_MonotoneThenStable ==
    [][/\ ~stop => visits(RootPath)' >= visits(RootPath)
       /\ stop => visits(RootPath)' = visits(RootPath)]_vars

\* C9 amended: visits(root) changes exactly in the backpropagation steps
\* that reach the root, each adding 1 modulo 2^16; after stop is set it can
\* still change while a worker finishes its iteration, and it no longer
\* changes once stop is set and no worker is inside mcts_search.
C9_StepwiseThenStable ==
    [][/\ RootVisitStep => visits(RootPath)' = (visits(RootPath) + 1) % U16Mod
       /\ ~RootVisitStep => visits(RootPath)' = visits(RootPath)
       /\ (stop /\ AllReturned) => visits(RootPath)' = visits(RootPath)]_vars

C9_Witness ==
    /\ stop
    /\ \A w \in Workers : wpc[w] = "returned"
    /\ visits(RootPath) = MaxIter
    /\ wins(RootPath) < MaxIter

\* C10: once stop is set every worker eventually returns, and no worker fails.
C10_WorkersReturn ==
    /\ stop ~> (\A w \in Workers : wpc[w] = "returned")
    /\ [](\A w \in Workers : wpc[w] # "failed")

(***************************************************************************)
(* Properties of the agent's final choice (checked under SpecAgent).       *)
(***************************************************************************)
\* the Move choose_move returns when best_child gives this action
MoveOfAction(action) ==
    IF OwnMove(action) # NoMove THEN OwnMove(action) ELSE DefaultMove

RootChildren == nodes[RootPath].next_nodes
ChildNode(action) == nodes[ChildOf(RootPath, action)]

\* no root child has more visits, nor as many visits and more wins
MostVisited(action) ==
    \A other \in RootChildren :
        \/ ChildNode(other).visits < ChildNode(action).visits
        \/ /\ ChildNode(other).visits = ChildNode(action).visits
           /\ ChildNode(other).wins <= ChildNode(action).wins

\* C11: the move the agent returns is that of a root child with the highest
\* visits and, among those, the highest wins (whichever way the key order
\* breaks the remaining ties).
C11_MostVisitedChild ==
    (chosen # NotChosen /\ RootChildren # {}) =>
        \E action \in RootChildren :
            MostVisited(action) /\ MoveOfAction(action) = chosen

\* C12 as stated: when the root has no children at the final read (no
\* iteration installed one, or the root board is over), the agent returns
\* the default move Down.
C12_DefaultDown ==
    (chosen # NotChosen /\ RootChildren = {}) => chosen = "Down"

\* C12 amended: in that case the agent returns the default move Up.
C12_DefaultUp ==
    (chosen # NotChosen /\ RootChildren = {}) => chosen = "Up"

C12_Witness ==
    /\ chosen = "Up"
    /\ RootChildren = {}
    /\ is_terminal(RootPath)
    /\ visits(RootPath) > 0

\* sqrt(k) in thousandths, for k in 1..9
SqrtMilli == <<1000, 1414, 1732, 2000, 2236, 2449, 2646, 2828, 3000>>

\* the score the specification gives a child, in millionths:
\* wins + c * sqrt(ln(visits(parent)) / (visits(child) + 1))
SpecScore(node, c10, parent_visits) ==
    node.wins * 1000000
      + (c10 * ((SqrtLnMicro[parent_visits] * 1000)
                   \div SqrtMilli[node.visits + 1])) \div 10

\* C13: wherever the search calls best_child (the selection loop at a node
\* that is not terminal and fully expanded), it returns None iff the child
\* map is empty, and otherwise a child whose score
\* wins + c * sqrt(ln(visits(parent)) / (visits(child) + 1)), every child
\* scored with the same visits(parent), is the highest.
C13_BestChildIsArgmax ==
    \A w \in spawned :
        (wpc[w] = "select" /\ ~is_terminal(wnode[w])
                           /\ is_fully_expanded(wnode[w])) =>
            LET path == wnode[w]
                score(action) ==
                    SpecScore(nodes[ChildOf(path, action)], SearchC10,
                              visits(path))
            IN /\ (best_child(path, SearchC10) = {})
                     = (nodes[path].next_nodes = {})
               /\ \A action \in best_child(path, SearchC10) :
                     \A other \in nodes[path].next_nodes :
                         score(other) <= score(action)

\* the reasonable-move list of the self snake on a board, as a set (empty
\* when the self snake is not alive there)
YouMoves(board) ==
    LET lists == reasonable_moves_for_each_snake(board)
    IN UNION {{lists[i][2][j] : j \in DOMAIN lists[i][2]} :
                 i \in {k \in DOMAIN lists : lists[k][1] = You}}

YouAlive(board) ==
    \E i \in DOMAIN reasonable_moves_for_each_snake(board) :
        reasonable_moves_for_each_snake(board)[i][1] = You

\* C14: when the agent returns a move read from a root child (the root has a
\* child and the self snake is alive at the root), the move is in the self
\* snake's reasonable-move list at the root board.
C14_ReasonableMove ==
    (chosen # NotChosen /\ RootChildren # {} /\ YouAlive(nodes[RootPath].board))
        => chosen \in YouMoves(nodes[RootPath].board)

C14_Witness ==
    /\ chosen = "Down"
    /\ Cardinality(RootChildren) = 2
    /\ YouAlive(nodes[RootPath].board)
    /\ YouMoves(nodes[RootPath].board) = {"Up", "Down"}

(***************************************************************************)
(* Properties of the joint-move enumerator (checked under SpecEnum).       *)
(***************************************************************************)
AllNonEmpty(snakes) == \A i \in DOMAIN snakes : snakes[i][2] # <<>>

\* the cartesian product of the snakes' lists: one <<snake, move>> per snake
Product(snakes) ==
    {[i \in DOMAIN snakes |-> <<snakes[i][1], snakes[i][2][idx[i]]>>] :
        idx \in {f \in [DOMAIN snakes -> DOMAIN Moves] :
                    \A i \in DOMAIN snakes : f[i] <= Len(snakes[i][2])}}

\* the product of the lengths of the lists from position i on
RECURSIVE ProductSizeFrom(_, _)
ProductSizeFrom(snakes, i) ==
    IF i > Len(snakes) THEN 1
    ELSE Len(snakes[i][2]) * ProductSizeFrom(snakes, i + 1)

ProductSize(snakes) == ProductSizeFrom(snakes, 1)

\* the next calls made so far include one that returned None
EnumDone == enone > 0

\* C15: when every list is non-empty, every combination yielded is an
\* element of the cartesian product (one move per snake), none is yielded
\* twice, and once next has returned None the yielded combinations are the
\* whole product, as many as the product of the list lengths; a further call
\* yields nothing more.
C15_CartesianProduct ==
    AllNonEmpty(esnakes) =>
        LET yielded == {eyield[k] : k \in DOMAIN eyield}
        IN /\ yielded \subseteq Product(esnakes)
           /\ Cardinality(yielded) = Len(eyield)
           /\ EnumDone =>
                /\ yielded = Product(esnakes)
                /\ Len(eyield) = ProductSize(esnakes)

C15_Witness ==
    /\ enone = MaxNone
    /\ Len(esnakes) = MaxSnakes
    /\ \A i \in DOMAIN esnakes : Len(esnakes[i][2]) = MaxMoves
    /\ Len(eyield) = ProductSize(esnakes)
    /\ Len(eyield) > MaxMoves

\* digit i of k in the mixed radix of the list lengths, last snake fastest
Digit(snakes, k, i) ==
    (k \div ProductSizeFrom(snakes, i + 1)) % Len(snakes[i][2])

UpDownLeftRight == << <<0, <<"Up", "Down">>>>, <<1, <<"Left", "Right">>>> >>

\* C16: the k-th combination yielded holds, for every snake, the move at the
\* snake's digit of k - 1 in mixed radix with the last snake varying fastest;
\* for snake0:[Up,Down], snake1:[Left,Right] the order is (Up,Left),
\* (Up,Right), (Down,Left), (Down,Right).
C16_MixedRadixOrder ==
    /\ AllNonEmpty(esnakes) =>
         \A k \in DOMAIN eyield : \A i \in DOMAIN esnakes :
             eyield[k][i] =
                 <<esnakes[i][1], esnakes[i][2][Digit(esnakes, k - 1, i) + 1]>>
    /\ (esnakes = UpDownLeftRight /\ EnumDone) =>
         eyield = << << <<0, "Up">>, <<1, "Left">> >>,
                     << <<0, "Up">>, <<1, "Right">> >>,
                     << <<0, "Down">>, <<1, "Left">> >>,
                     << <<0, "Down">>, <<1, "Right">> >> >>

C16_Witness ==
    /\ esnakes = UpDownLeftRight
    /\ EnumDone
    /\ Len(eyield) = 4

\* C17: once next has returned None, nothing was yielded iff some snake's
\* list is empty, and exactly one combination, the empty one, was yielded
\* iff there are no snakes.
C17_EmptyCases ==
    EnumDone =>
        /\ (eyield = <<>>) = (~AllNonEmpty(esnakes))
        /\ (eyield = << <<>> >>) = (esnakes = <<>>)

C17_Witness ==
    /\ enone = MaxNone
    /\ eyield = <<>>
    /\ Len(esnakes) = MaxSnakes
    /\ esnakes[MaxSnakes][2] = <<>>
    /\ \A i \in 1..(MaxSnakes - 1) : Len(esnakes[i][2]) = MaxMoves

(***************************************************************************)
(* Properties of the server (checked under SpecServer).                    *)
(***************************************************************************)
\* C18: every /move request is answered with a Move and none fails,
\* whatever the request and the registry, also when the game id of the
\* request is not in the registry.
C18_MoveAlwaysAnswered ==
    \A i \in DOMAIN responses :
        responses[i].req = "move" => responses[i].resp = "move"

(***************************************************************************)
(* Properties of the counters over long runs (checked under SpecLong).     *)
(***************************************************************************)
\* C19: the wins and visits counters of every node never decrease: no step
\* of a backpropagation pass makes a counter smaller.
C19_CountersMonotonic ==
    [][\A path \in DOMAIN nodes :
           /\ nodes'[path].visits >= nodes[path].visits
           /\ nodes'[path].wins >= nodes[path].wins]_vars

(***************************************************************************)
(* Properties of the descent with several workers (checked under Spec).    *)
(***************************************************************************)
\* C20: with any number of workers on one root, the descent's expect never
\* fails: whenever the selection loop finds a node not terminal and fully
\* expanded, best_child returns a child, in every interleaving.
C20_DescentNeverFails ==
    \A w \in Workers : wpc[w] # "failed"

(***************************************************************************)
(* Properties of the search at a board without joint moves (checked under  *)
(* SpecStuck).                                                             *)
(***************************************************************************)
\* the board is not over, yet the enumerator yields no combination for it
Stuck(board) == ~is_over(board) /\ PossibleMoves(board) = <<>>

\* C21: at a node whose board is not over but has no joint-move combination
\* the worker does not fail, installs no child, and goes on to the rollout
\* without descending.
C21_StuckTreatedTerminal ==
    \A w \in spawned :
        (wpc[w] # "idle" /\ Stuck(nodes[wnode[w]].board)) =>
            /\ wpc[w] # "failed"
            /\ nodes[wnode[w]].next_nodes = {}

(***************************************************************************)
(* Properties of terminal nodes (checked under Spec).                      *)
(***************************************************************************)
\* C22: the search never expands a terminal node: a node whose board is
\* over has no children and none of its pending combinations was consumed.
C22_TerminalNeverExpanded ==
    \A path \in DOMAIN nodes :
        is_over(nodes[path].board) =>
            /\ nodes[path].next_nodes = {}
            /\ nodes[path].popped = 0
            /\ inserts[path] = 0

C22_Witness ==
    \E path \in DOMAIN nodes :
        /\ path # RootPath
        /\ is_over(nodes[path].board)
        /\ PossibleMoves(nodes[path].board) # <<>>
        /\ nodes[path].visits >= 2
        /\ nodes[path].popped = 0

\* C23: every terminal node has an empty pending queue from its
\* construction on: is_fully_expanded() is true for every node whose board
\* is over, also when a live snake of the over board has reasonable moves.
C23_TerminalFullyExpanded ==
    \A path \in DOMAIN nodes :
        is_over(nodes[path].board) => is_fully_expanded(path)

(***************************************************************************)
(* Properties of backpropagation (checked under SpecLong and Spec).        *)
(***************************************************************************)
\* no worker is inside backpropagate
NoBackprop == \A w \in Workers : wpc[w] \notin {"bp_visits", "bp_wins"}

\* the iterations begun whose backpropagation has not started
Unfinished ==
    Cardinality({w \in Workers :
                    wpc[w] \in {"select", "expand", "insert", "rollout", "failed"}})

\* C24: whenever no backpropagation is in progress, every node's visits is
\* the number of completed passes through it and its wins the sum of their
\* outcomes; visits(root) is the number of completed iterations of all
\* workers.
C24_CountersCountPasses ==
    NoBackprop =>
        /\ \A path \in DOMAIN nodes :
               /\ nodes[path].visits = passes[path]
               /\ nodes[path].wins = outcomes[path]
        /\ nodes[RootPath].visits = iterations - Unfinished

\* C25: a backpropagation pass adds exactly 1 to visits and exactly its
\* outcome to wins on the node it is at, then goes on to the parent with the
\* same outcome and ends only at the root; each of its steps leaves the
\* counters of every other node, all child maps and all pending queues
\* unchanged.
C25_BackpropFrame ==
    [][\A w \in Workers :
          /\ (wpc[w] = "bp_visits" /\ wpc'[w] # "bp_visits") =>
                /\ nodes' = [nodes EXCEPT ![wnode[w]].visits = @ + 1]
                /\ wpc'[w] = "bp_wins"
                /\ wnode'[w] = wnode[w]
                /\ wresult'[w] = wresult[w]
          /\ (wpc[w] = "bp_wins" /\ wpc'[w] # "bp_wins") =>
                /\ nodes' = [nodes EXCEPT ![wnode[w]].wins = @ + wresult[w]]
                /\ IF wnode[w] = RootPath
                     THEN wpc'[w] = "loop"
                     ELSE /\ wpc'[w] = "bp_visits"
                          /\ wnode'[w] = ParentOf(wnode[w])
                          /\ wresult'[w] = wresult[w]]_vars

(***************************************************************************)
(* Properties of one iteration of a lone worker (checked under SpecAgent). *)
(***************************************************************************)
\* path is a proper prefix of other
IsAncestor(path, other) ==
    /\ Len(path) < Len(other)
    /\ SubSeq(other, 1, Len(path)) = path

\* C26: the rollout and the backpropagation of an iteration start at the
\* node the selection loop stopped at (the parent of the child the iteration
\* installed), and only ancestors of that child are passed: the iteration
\* leaves the child's visits and wins at 0.
C26_RolloutFromStoppedNode ==
    \A w \in spawned :
        installed[w] # NoPath =>
            /\ nodes[installed[w]].visits = 0
            /\ nodes[installed[w]].wins = 0
            /\ wpc[w] = "rollout" => wnode[w] = ParentOf(installed[w])
            /\ wpc[w] \in {"bp_visits", "bp_wins"} =>
                  IsAncestor(wnode[w], installed[w])

C26_Witness ==
    \E w \in spawned :
        /\ installed[w] # NoPath
        /\ Len(installed[w]) = 2
        /\ wpc[w] = "bp_wins"
        /\ wnode[w] = RootPath
        /\ nodes[ParentOf(installed[w])].visits >= 2
        /\ nodes[RootPath].wins >= 1

(***************************************************************************)
(* Properties of cancellation (checked under Spec).                        *)
(***************************************************************************)
\* the workers that are inside an iteration
InIteration ==
    {w \in Workers : wpc[w] \in {"select", "expand", "insert", "rollout",
                                 "bp_visits", "bp_wins"}}

\* the workers whose iteration has not added its visit to the root yet
YetToVisitRoot ==
    {w \in InIteration : ~(wpc[w] = "bp_wins" /\ wnode[w] = RootPath)}

\* C27: once the stop flag is set no worker begins an iteration (each only
\* completes the one it is in); hence the root's visits grows by at most the
\* number of workers: from then on no step makes visits(root) plus the
\* number of workers yet to add their visit any larger, and that number is
\* at most the number of workers.
C27_StopBoundsIterations ==
    /\ [][stop =>
            /\ iterations' = iterations
            /\ InIteration' \subseteq InIteration
            /\ nodes'[RootPath].visits + Cardinality(YetToVisitRoot')
                 <= nodes[RootPath].visits + Cardinality(YetToVisitRoot)]_vars
    /\ [](Cardinality(YetToVisitRoot) <= NumWorkers)

C27_Witness ==
    /\ stop
    /\ \A w \in Workers : wpc[w] = "bp_visits" /\ wnode[w] = RootPath
    /\ nodes[RootPath].visits + NumWorkers = iterations

(***************************************************************************)
(* Properties of the agent's final read (checked under SpecAgent).         *)
(***************************************************************************)
\* C28: when the agent reads the root's children the stop flag is set and
\* every worker has left its loop: no expansion or backpropagation is in
\* progress, every iteration begun has completed its pass at the root, and
\* nothing changes the tree after the read.
C28_ReadAfterJoin ==
    /\ [](chosen # NotChosen =>
            /\ stop
            /\ \A w \in spawned : wpc[w] \in {"returned", "failed"}
            /\ passes[RootPath]
                 = iterations - Cardinality({w \in spawned : wpc[w] = "failed"}))
    /\ [][chosen # NotChosen => nodes' = nodes]_vars

C28_Witness ==
    /\ chosen # NotChosen
    /\ passes[RootPath] >= 3
    /\ Cardinality(RootChildren) = 2
    /\ \A w \in spawned : ran[w]

(***************************************************************************)
(* Progress of the search (checked under FairSpecAgent).                   *)
(***************************************************************************)
SomeRootChildVisited ==
    \E action \in RootChildren : ChildNode(action).visits > 0

\* C29: on a root that is not terminal, as long as the stop flag is not set
\* and the workers are scheduled fairly, visits(root) eventually exceeds 0,
\* the root eventually is fully expanded, and then some root child
\* eventually has visits above 0.
C29_AnytimeProgress ==
    /\ (~is_terminal(RootPath)) ~> (stop \/ nodes[RootPath].visits > 0)
    /\ (~is_terminal(RootPath)) ~> (stop \/ is_fully_expanded(RootPath))
    /\ (~is_terminal(RootPath) /\ is_fully_expanded(RootPath))
          ~> (stop \/ SomeRootChildVisited)

C29_Witness ==
    /\ ~stop
    /\ ~is_terminal(RootPath)
    /\ is_fully_expanded(RootPath)
    /\ nodes[RootPath].visits > 0
    /\ SomeRootChildVisited
    /\ Cardinality(RootChildren) = 2

(***************************************************************************)
(* The final choice with c = 0 (checked under SpecAgent).                  *)
(***************************************************************************)
\* no root child has more wins
HighestWins(action) ==
    \A other \in RootChildren : ChildNode(other).wins <= ChildNode(action).wins

\* C30: at the final choice the agent calls best_child with c = 0, and the
\* child it returns has the highest wins of the root's children, whatever
\* their visits (also 0); which of several children with the highest wins it
\* is, is left to the key order.
C30_FinalChoiceHighestWins ==
    /\ AgentC10 = 0
    /\ (chosen # NotChosen /\ RootChildren # {}) =>
          \E action \in RootChildren :
              HighestWins(action) /\ MoveOfAction(action) = chosen

(***************************************************************************)
(* A worker that fails during the turn (checked under SpecTurn).           *)
(***************************************************************************)
SomeWorkerFailed == \E w \in spawned : wpc[w] = "failed"

\* C31: when a worker has failed during the search, choose_move still
\* returns, and what it returns is the fixed default Move, not the move of
\* an action read from the partially built tree.
C31_PanicGivesDefault ==
    (chosen # NotChosen /\ SomeWorkerFailed) => chosen = DefaultMove

(***************************************************************************)
(* The retry loop of pop_front (checked under SpecQueue).                  *)
(***************************************************************************)
\* how far along the list a pointer is: the cell's position, past the last
\* cell for null
Pos(ptr) == IF ptr = Null THEN qlen + 1 ELSE CellAt(clear_consumed_bit(ptr))

\* the passes of the loop a pop has begun or is about to begin
PassesBegun(t) == tries[t] + (IF qpc[t] = "load_head" THEN 1 ELSE 0)

\* C32: a pop_front on a queue built from N items makes at most N + 1 passes
\* of its loop, whatever the other threads do: head never moves back, and
\* when a pass ends in a retry head is strictly further along the list than
\* the head that pass loaded.
C32_BoundedRetries ==
    /\ [](\A t \in Threads : PassesBegun(t) <= qlen + 1)
    /\ [][Pos(head') >= Pos(head)]_vars
    /\ [][\A t \in Threads :
            (qpc[t] \in {"help_cas", "claim_cas"} /\ qpc'[t] = "load_head")
                => Pos(head') > Pos(current[t])]_vars

\* a pop about to make pass N + 1, which will find the queue empty
C32_Witness ==
    \E t \in Threads :
        /\ qlen = MaxLen
        /\ qpc[t] = "load_head"
        /\ tries[t] = qlen
        /\ head = Null

(***************************************************************************)
(* The registry against the requests handled (checked under SpecServer).   *)
(***************************************************************************)
\* the games for which, among the first i requests, a well-formed /start was
\* handled and no well-formed /end after it
RECURSIVE OpenGames(_)
OpenGames(i) ==
    IF i = 0 THEN {}
    ELSE LET prev == OpenGames(i - 1)
         IN IF ~requests[i].wellformed THEN prev
            ELSE IF responses[i].req = "start" THEN prev \cup {requests[i].game}
            ELSE IF responses[i].req = "end" THEN prev \ {requests[i].game}
            ELSE prev

\* the step handles a /move request
MoveHandled ==
    /\ Len(responses') = Len(responses) + 1
    /\ responses'[Len(responses')].req = "move"

\* C33: after any sequence of /start, /move and /end requests the registry
\* holds exactly the game ids for which a /start has been handled and no
\* later /end; handling a /move never changes the registry.
C33_RegistryTracksRequests ==
    /\ [](registry = OpenGames(Len(requests)))
    /\ [][MoveHandled => registry' = registry]_vars

\* request i was a well-formed /move for a game that is not registered, and
\* it failed
FailedUnknownGame(i) ==
    /\ responses[i].req = "move"
    /\ requests[i].wellformed
    /\ requests[i].game \notin OpenGames(i - 1)
    /\ responses[i].resp = "failed"

\* request j can be served: it is well-formed and, for a /move, its game is
\* registered
Servable(j) ==
    /\ requests[j].wellformed
    /\ responses[j].req = "move" => requests[j].game \in OpenGames(j - 1)

\* C38: a /move that fails because its game id is not in the registry
\* leaves the registry as it was and usable: every later request that can
\* be served is served.
C38_UnknownGameHarmless ==
    /\ [](\A i, j \in DOMAIN responses :
            (i < j /\ FailedUnknownGame(i) /\ Servable(j))
                => responses[j].resp # "failed")
    /\ [][(MoveHandled /\ FailedUnknownGame(Len(responses))')
            => registry' = registry]_vars

(***************************************************************************)
(* Children of a node that still has pending combinations (checked under   *)
(* Spec).                                                                  *)
(***************************************************************************)
\* C34: with any number of workers, a child of a node whose pending queue
\* is not empty has visits = 0 and wins = 0: a child is first visited after
\* its parent is fully expanded.
C34_UnvisitedUntilExpanded ==
    \A path \in Paths :
        ~is_fully_expanded(path) =>
            \A action \in nodes[path].next_nodes :
                /\ ChildOf(path, action) \in Paths
                /\ nodes[ChildOf(path, action)].visits = 0
                /\ nodes[ChildOf(path, action)].wins = 0

\* the root has a child and a pending combination, and a pass that came
\* after the child was installed has been counted at the root
C34_Witness ==
    /\ ~is_fully_expanded(RootPath)
    /\ RootChildren # {}
    /\ nodes[RootPath].visits > 0
    /\ \A w \in Workers : wpc[w] = "loop"

(***************************************************************************)
(* A node's counters against those of its children (checked under          *)
(* SpecLong).                                                              *)
(***************************************************************************)
\* the sum of a counter ("visits" or "wins") over the children of a node
RECURSIVE SumOver(_, _, _)
SumOver(path, actions, counter) ==
    IF actions = {} THEN 0
    ELSE LET action == CHOOSE a \in actions : TRUE
         IN nodes[ChildOf(path, action)][counter]
              + SumOver(path, actions \ {action}, counter)

ChildrenSum(path, counter) == SumOver(path, nodes[path].next_nodes, counter)

\* C35: whenever no backpropagation is in progress, every node's visits is
\* the number of completed rollouts that started at it plus the sum of its
\* children's visits, and likewise its wins; so its visits is at least the
\* sum of its children's visits.
C35_CountersSumChildren ==
    NoBackprop =>
        \A path \in Paths :
            /\ nodes[path].visits
                  = rollouts[path] + ChildrenSum(path, "visits")
            /\ nodes[path].wins = rollwins[path] + ChildrenSum(path, "wins")
            /\ nodes[path].visits >= ChildrenSum(path, "visits")

(***************************************************************************)
(* Children and pending combinations of a node (checked under Spec).       *)
(***************************************************************************)
\* the combinations no expand has claimed yet
Unclaimed(path) == Len(PossibleMoves(nodes[path].board)) - nodes[path].popped

\* C36: whenever no expand is in progress on a node, its children and the
\* combinations still unclaimed in its pending queue together are as many as
\* the queue held at construction; if the node is fully expanded as well,
\* every combination has its child.
C36_ChildrenPlusPending ==
    \A path \in Paths :
        Inserting(path) = {} =>
            /\ Cardinality(nodes[path].next_nodes) + Unclaimed(path)
                  = Len(PossibleMoves(nodes[path].board))
            /\ is_fully_expanded(path) =>
                  Cardinality(nodes[path].next_nodes)
                    = Len(PossibleMoves(nodes[path].board))

\* no expand is in progress; the root has all its children, and one of them
\* has one child and one combination pending
C36_Witness ==
    /\ \A path \in Paths : Inserting(path) = {}
    /\ Cardinality(RootChildren) = 2
    /\ \E action \in RootChildren :
          LET child == ChildOf(RootPath, action)
          IN /\ Unclaimed(child) = 1
             /\ Cardinality(nodes[child].next_nodes) = 1

(***************************************************************************)
(* The children mutexes (checked under SpecLocks).                         *)
(***************************************************************************)
\* the mutexes a thread holds
Held(t) == {n \in LockTree : lholder[n] = t}

\* the thread is inside lock() on a mutex that is held
Blocked(t) ==
    /\ lpc[t] \in {"expand_lock", "best_lock", "depth_lock"}
    /\ lholder[lat[t]] # NoThread

\* the thread can take a step, or waits for one that can, along at most k
\* holders
RECURSIVE CanProceed(_, _)
CanProceed(t, k) ==
    \/ ~Blocked(t)
    \/ /\ k > 0
       /\ lholder[lat[t]] # t
       /\ CanProceed(lholder[lat[t]], k - 1)

\* C37: no interleaving of expand, best_child, get_depth, rollout and
\* backpropagate calls by the threads deadlocks: no thread waits for a
\* mutex around a cycle of holders or for one it holds itself; a thread
\* locks a mutex only while all mutexes it holds are those of ancestors of
\* that node; expand and best_child hold at most one mutex, and none while
\* they wait for it; rollout and backpropagate hold none.
C37_NoDeadlock ==
    \A t \in Workers :
        /\ CanProceed(t, NumWorkers)
        /\ (lpc[t] # "idle" /\ ~Blocked(t)) => ENABLED NodeMethods(t)
        /\ lpc[t] \in {"expand_lock", "best_lock", "depth_lock"} =>
              \A n \in Held(t) : IsAncestor(n, lat[t])
        /\ lpc[t] \in {"expand_lock", "best_lock"} => Held(t) = {}
        /\ lpc[t] \in {"expand_unlock", "best_unlock"} => Held(t) = {lat[t]}
        /\ lpc[t] \in {"idle", "rollout", "backpropagate"} => Held(t) = {}

\* a get_depth holds the mutexes of the root and of a child and waits for
\* the grandchild's, which a best_child holds
C37_Witness ==
    \E t1, t2 \in Workers :
        /\ Held(t1) = {RootPath, <<"Up">>}
        /\ lpc[t1] = "depth_lock"
        /\ Blocked(t1)
        /\ lpc[t2] = "best_unlock"
        /\ lat[t2] = <<"Up", "Up">>

(***************************************************************************)
(* TournamentStats::from_results (checked under SpecStats).                *)
(***************************************************************************)
\* the wins of the first n agents together
RECURSIVE WinsOfFirst(_, _)
WinsOfFirst(stats, n) ==
    IF n = 0 THEN 0 ELSE stats[n].wins + WinsOfFirst(stats, n - 1)

\* the step is a pass of the loop over a result without a valid winner
DrawCounted ==
    /\ seen' = seen + 1
    /\ result'.winner = NoWinner \/ result'.winner >= NumAgents

\* C39: for every list of results, from_results gives every agent
\* wins + losses + draws = total_games (its own), and all agents' wins plus
\* total_draws is the number of results; a result with no winner, or with a
\* winner index that is no agent's, is one more draw for total_draws and for
\* each agent with index below num_snakes, and changes no other agent.
C39_StatsAddUp ==
    /\ [](tournament # NoStats =>
            /\ \A i \in 1..NumAgents :
                  LET a == tournament.agent_stats[i]
                  IN a.wins + a.losses + a.draws = a.total_games
            /\ WinsOfFirst(tournament.agent_stats, NumAgents)
                  + tournament.total_draws = seen
            /\ tournament.total_games = seen)
    /\ [][DrawCounted =>
            /\ total_draws' = total_draws + 1
            /\ \A i \in 1..NumAgents :
                  IF i - 1 < result'.num_snakes
                    THEN /\ agent_stats'[i].draws = agent_stats[i].draws + 1
                         /\ agent_stats'[i].wins = agent_stats[i].wins
                         /\ agent_stats'[i].losses = agent_stats[i].losses
                    ELSE agent_stats'[i] = agent_stats[i]]_vars

\* the stats are returned for as many results as the model allows, the last
\* with a winner index one past the agents; the first agent has won a game,
\* lost one and drawn one
C39_Witness ==
    /\ tournament # NoStats
    /\ seen = MaxResults
    /\ result.winner = NumAgents
    /\ tournament.agent_stats[1].wins = 1
    /\ tournament.agent_stats[1].losses = 1
    /\ tournament.agent_stats[1].draws = 1

(***************************************************************************)
(* The helping compare-and-swap of pop_front (checked under SpecQueue).    *)
(***************************************************************************)
\* thread t takes the step of its helping CAS
HelpStep(t) == qpc[t] = "help_cas" /\ qpc'[t] # "help_cas"

\* thread t claims the front cell: its claiming CAS succeeds
ClaimStep(t) == qpc[t] = "claim_cas" /\ qpc'[t] = "store_tag"

\* C40: the helping CAS of pop_front never changes head; head changes only
\* in the successful claiming CAS of a pop, from the cell that pop then
\* returns the payload of to its successor; and whenever a cell's next
\* carries the consumed tag, head is past that cell.
C40_HelpNeverMovesHead ==
    /\ [][\A t \in Threads : HelpStep(t) => head' = head]_vars
    /\ [][head' # head =>
            \E t \in Threads :
                /\ ClaimStep(t)
                /\ head = current[t]
                /\ head' = next[CellAt(current[t])]
                /\ current'[t] = current[t]]_vars
    /\ [][\A t \in Threads :
            (qpc[t] \in {"store_tag", "read_data"} /\ qpc'[t] # qpc[t]) =>
                IF qpc[t] = "store_tag"
                  THEN current'[t] = current[t] /\ qpc'[t] = "read_data"
                  ELSE ret'[t] = Append(ret[t], Payload(CellAt(current[t])))]_vars
    /\ [](\A c \in Cells : is_consumed(next[c]) => Pos(head) > c)

\* a pop is at its helping CAS: it loaded a head whose next carries the
\* tag, and head has moved on since, beyond the successor it would set
C40_Witness ==
    \E t \in Threads :
        /\ qpc[t] = "help_cas"
        /\ is_consumed(next_raw[t])
        /\ Pos(head) > Pos(clear_consumed_bit(next_raw[t]))

====
